---------------------------- MODULE Spec2Model ----------------------------
(***************************************************************************)
(* Petster: the profile-generation proxy (vite.config.ts, server/api.ts)   *)
(* and the results page of the client (components/ResultsPage.tsx).        *)
(*                                                                         *)
(* Strings are sequences of tokens, so that "message m contains s" is      *)
(* "s is an element of m".  An optional JavaScript value is None (for      *)
(* undefined) or Some(v).  JSON text and the value it parses to are        *)
(* different things: a text may be garbage, and an object text may repeat  *)
(* a key, which JSON.parse resolves.                                       *)
(***************************************************************************)
EXTENDS Integers, Sequences, FiniteSets, TLC

VARIABLES
    env,        \* process.env.OPENAI_API_KEY
    pc,         \* pc[r]: where the middleware invocation for request r stands
    method,     \* req.method of request r
    reqText,    \* the body the client of request r sends, as chunks
    wire,       \* chunks of request r not yet emitted as 'data'
    body,       \* parseBody: the closure variable `body` of each call
    apiKey,     \* the handler's local `apiKey`
    outbound,   \* the fetch calls generateProfile made for request r
    response,   \* generateProfile's local `response`
    res,        \* the ServerResponse of request r
    mounted,    \* ResultsPage: whether instance i is on screen
    profile,    \* ResultsPage state `profile` of instance i
    loading,    \* ResultsPage state `loading`
    error,      \* ResultsPage state `error`
    dogImages,  \* ResultsPage state `dogImages`
    genPc,      \* where generate() of instance i's effect stands
    genCancelled, \* the `cancelled` flag of that effect
    genRes,     \* generate's local `res`
    genFetches, \* the profile requests generate() of instance i issued
    backendRecs,      \* ResultsPage state `backendRecs`
    backendRecsMessage, \* ResultsPage state `backendRecsMessage`
    backendRecImages, \* ResultsPage state `backendRecImages`
    aiImages,         \* ResultsPage state `aiImages`
    aiImagesLoading,  \* ResultsPage state `aiImagesLoading`
    recPc,      \* where loadRecs() of instance i's effect stands
    recCancelled, \* the `cancelled` flag of that effect
    recPending, \* loadRecs: the dogs whose fetchDogImage has not settled
    recImgs,    \* loadRecs: the results of the settled fetchDogImage calls
    aiPc,       \* where generateImages() of instance i's effect stands
    aiCancelled, \* the `cancelled` flag of that effect
    swMounted,  \* SwipeCards: whether the component is on screen
    cards,      \* SwipeCards state `cards`
    images,     \* SwipeCards state `images`
    userId,     \* SwipeCards state `userId`
    swLoading,  \* SwipeCards state `loading`
    currentIndex, \* SwipeCards state `currentIndex`
    offsetX,    \* SwipeCards state `offsetX`
    startX,     \* SwipeCards ref `startX`
    isDragging, \* SwipeCards state `isDragging`
    exitDirection, \* SwipeCards state `exitDirection`
    liked,      \* SwipeCards state `liked`
    disliked,   \* SwipeCards state `disliked`
    loadPc,     \* where load() of the SwipeCards effect stands
    loadCancelled, \* the `cancelled` flag of that effect
    imgPending, \* load: the cards whose fetchBreedImage has not settled
    imgs,       \* load: the results of the settled image promises
    timers,     \* the setTimeout callbacks of swipe() not yet run
    swipeRequests, \* the recordSwipe requests issued
    users,      \* the backend's users table
    callPc,     \* where call c of getOrCreateUser stands
    callUsers,  \* the answer to the call's GET /users/
    callResult, \* what the call returned
    createRequests, \* the POST /users/ requests issued
    swipeLog,   \* the backend's swipe log of the user
    preference, \* the aggregated preference of the user
    weights,    \* the scorer's weights
    scores,     \* the compatibility scores last computed, with their preference
    revision,   \* which revision of SwipeCards the client is built from
    fetchError, \* SwipeCards.tsx state `fetchError`
    renderError, \* whether a render of SwipeCards threw
    file,       \* RescueUpload state `file`
    uploading,  \* RescueUpload state `uploading`
    upResult,   \* RescueUpload state `result`
    upError,    \* RescueUpload state `error`
    upPc,       \* where handleUpload stands
    uploads,    \* the upload requests issued
    step,       \* App state `step`
    appEnergy,  \* App state `energy`
    appWeight,  \* App state `weight`
    appAge,     \* App state `age`
    swipeResults, \* App state `swipeResults`
    completed,  \* the arguments of the last onComplete call
    rendered,   \* the prompt generateProfile rendered for the results page's request
    hPc,        \* where the call of a breed-image helper stands
    hName,      \* which helper was called
    hBreed,     \* its argument `breed`
    hRequests,  \* the requests to dog.ceo the call has made
    hReplies,   \* how these requests ended
    hResult,    \* what the call resolved to
    giPc,       \* where the call of generateRecommendedImages stands
    giRecs,     \* its local `recs.recommendations`
    giImages,   \* its local `imageResults`
    giResult    \* what the call returned or threw

proxyVars == <<env, pc, method, reqText, wire, body, apiKey, outbound, response, res>>
genVars == <<mounted, profile, loading, error, dogImages, genPc, genCancelled, genRes,
             genFetches>>
recVars == <<backendRecs, backendRecsMessage, backendRecImages, recPc, recCancelled, recPending, recImgs>>
aiVars == <<aiImages, aiImagesLoading, aiPc, aiCancelled>>
pageVars == <<genVars, recVars, aiVars>>
swipeVars == <<swMounted, cards, images, userId, swLoading, currentIndex, offsetX,
               startX, isDragging, exitDirection, liked, disliked, loadPc, loadCancelled,
               imgPending, imgs, timers, swipeRequests>>
userVars == <<users, callPc, callUsers, callResult, createRequests>>
recoVars == <<swipeLog, preference, weights, scores>>
dogsVars == <<revision, fetchError, renderError>>
uploadVars == <<file, uploading, upResult, upError, upPc, uploads>>
appVars == <<step, appEnergy, appWeight, appAge, swipeResults, completed, rendered>>
helperVars == <<hPc, hName, hBreed, hRequests, hReplies, hResult>>
giVars == <<giPc, giRecs, giImages, giResult>>
clientVars ==
    <<pageVars, swipeVars, userVars, recoVars, dogsVars, uploadVars, appVars, helperVars, giVars>>
nonPageVars ==
    <<proxyVars, swipeVars, userVars, recoVars, dogsVars, uploadVars, appVars, helperVars, giVars>>
nonSwipeVars ==
    <<proxyVars, pageVars, userVars, recoVars, dogsVars, uploadVars, appVars, helperVars, giVars>>
nonUserVars ==
    <<proxyVars, pageVars, swipeVars, recoVars, dogsVars, uploadVars, appVars, helperVars, giVars>>
nonRecoVars ==
    <<proxyVars, pageVars, swipeVars, userVars, dogsVars, uploadVars, appVars, helperVars, giVars>>
nonUploadVars ==
    <<proxyVars, pageVars, swipeVars, userVars, recoVars, dogsVars, appVars, helperVars, giVars>>
nonAppVars ==
    <<proxyVars, pageVars, swipeVars, userVars, recoVars, dogsVars, uploadVars, helperVars, giVars>>
nonDogsVars ==
    <<proxyVars, pageVars, userVars, recoVars, uploadVars, appVars, helperVars, giVars>>
nonHelperVars ==
    <<proxyVars, pageVars, swipeVars, userVars, recoVars, dogsVars, uploadVars, appVars>>
vars ==
    <<proxyVars, pageVars, swipeVars, userVars, recoVars, dogsVars, uploadVars, appVars, helperVars, giVars>>

----------------------------------------------------------------------------
(* Bounds *)

NReq == 2                      \* requests the proxy handles in one run
NMount == 2                    \* times the results page is mounted in one run
MaxSwipes == 3                 \* swipe() calls in one run
NCall == 2                     \* calls of getOrCreateUser in one run
MaxLog == 3                    \* swipes recorded in one run
MaxUploads == 3                \* uploads started in one run

Req == 1..NReq
Page == 1..NMount
Call == 1..NCall

----------------------------------------------------------------------------
(* Optional values and results of operations that may throw *)

None == <<>>
Some(v) == <<v>>
IsSome(o) == o # <<>>
Get(o) == o[1]

Range(s) == {s[i] : i \in DOMAIN s}

Error(msg) == [instanceofError |-> TRUE, message |-> msg]
Throw(err) == [ok |-> FALSE, err |-> err, value |-> None]
Return(v)  == [ok |-> TRUE, err |-> Error(<<>>), value |-> Some(v)]

----------------------------------------------------------------------------
(* JSON *)

SyntaxErrorMessage == <<"Unexpected token in JSON">>
TypeErrorMessage == <<"Cannot read properties of undefined">>

Keys(members) == {members[i][1] : i \in DOMAIN members}

\* The last value a text gives to key k.
RECURSIVE LastValue(_, _)
LastValue(members, k) ==
    IF members[Len(members)][1] = k THEN members[Len(members)][2]
    ELSE LastValue(SubSeq(members, 1, Len(members) - 1), k)

\* JSON.parse of an object text: a key keeps the position of its first
\* occurrence and takes the value of its last one.
RECURSIVE ParseMembers(_, _, _)
ParseMembers(members, i, acc) ==
    IF i > Len(members) THEN acc
    ELSE IF members[i][1] \in Keys(acc) THEN ParseMembers(members, i + 1, acc)
    ELSE ParseMembers(members, i + 1,
                      Append(acc, <<members[i][1], LastValue(members, members[i][1])>>))

JSONparseLenient(text) ==
    IF text.syntax # "json" THEN Return([type |-> "object", members |-> <<>>])
    ELSE Return([type |-> text.type, members |-> ParseMembers(text.members, 1, <<>>)])

JSONparse(text) ==
    IF text.syntax # "json" THEN Throw(Error(SyntaxErrorMessage))
    ELSE Return([type |-> text.type, members |-> ParseMembers(text.members, 1, <<>>)])

JSONstringify(value) ==
    [syntax |-> "json", type |-> value.type, members |-> value.members]

ObjectValue(members) == [type |-> "object", members |-> members]


----------------------------------------------------------------------------
(* Request bodies.  A body text is the sequence of chunks the client sends; *)
(* ParseBodyText is JSON.parse on their concatenation.                      *)

AGE_LABELS ==
    <<"Puppy (0-1 yr)", "Young (1-3 yrs)", "Adult (3-7 yrs)",
      "Senior (7-10 yrs)", "Elderly (10+ yrs)">>

StdPreferences ==
    [energy |-> Some(<<20, 80>>), weight |-> Some(<<15, 100>>), age |-> Some(<<0, 3>>)]

\* A liked or disliked dog as generateProfile's SwipedDog reads it.
Rex  == [name |-> Some("Rex"), breed |-> Some("Beagle"), age |-> Some("2 yrs"),
         weight |-> Some("25 lbs"), energy |-> Some("High")]
Bella == [name |-> Some("Bella"), breed |-> Some("Poodle"), age |-> Some("5 yrs"),
          weight |-> Some("40 lbs"), energy |-> Some("Low")]

BodyValue(preferences, results) ==
    [type |-> "object", preferences |-> preferences, results |-> results]

StdBody ==
    BodyValue(Some(StdPreferences), Some([liked |-> Some(<<>>), disliked |-> Some(<<>>)]))
DogsBody ==
    BodyValue(Some(StdPreferences),
              Some([liked |-> Some(<<Rex>>), disliked |-> Some(<<Bella>>)]))
NoLikedBody ==
    BodyValue(Some(StdPreferences), Some([liked |-> None, disliked |-> Some(<<>>)]))
NoAgeBody ==
    BodyValue(Some([StdPreferences EXCEPT !.age = None]),
              Some([liked |-> Some(<<>>), disliked |-> Some(<<>>)]))
NoResultsBody == BodyValue(Some(StdPreferences), None)
EmptyObjectBody == BodyValue(None, None)

StdText       == <<"{\"preferences\":{\"energy\":[20,80],\"weight\":[15,100],\"age\":[0,3]},",
                   "\"results\":{\"liked\":[],\"disliked\":[]}}">>
DogsText      == <<"{\"preferences\":{...},\"results\":{\"liked\":[Rex],\"disliked\":[Bella]}}">>
NoLikedText   == <<"{\"preferences\":{...},\"results\":{\"disliked\":[]}}">>
NoAgeText     == <<"{\"preferences\":{\"energy\":[20,80],\"weight\":[15,100]},\"results\":{...}}">>
NoResultsText == <<"{\"preferences\":{...}}">>
EmptyObjText  == <<"{}">>
TruncatedText == <<"{\"preferences\":">>

BodyTexts ==
    { StdText, DogsText, NoLikedText, NoAgeText, NoResultsText, EmptyObjText,
      TruncatedText }

ParseBodyText(text) ==
    CASE text = StdText      -> Return(StdBody)
      [] text = DogsText     -> Return(DogsBody)
      [] text = NoLikedText  -> Return(NoLikedBody)
      [] text = NoAgeText    -> Return(NoAgeBody)
      [] text = NoResultsText -> Return(NoResultsBody)
      [] text = EmptyObjText -> Return(EmptyObjectBody)
      [] OTHER               -> Throw(Error(SyntaxErrorMessage))

Methods == {"POST", "GET"}

----------------------------------------------------------------------------
(* generateProfile up to its fetch: the prompt template *)

\* `${a[i]}` for a JavaScript array a and a 0-based index i
Interpolate(a, i) == IF i + 1 \in DOMAIN a THEN ToString(a[i + 1]) ELSE "undefined"

AgeLabel(a, i) ==
    IF i + 1 \in DOMAIN a /\ a[i + 1] + 1 \in DOMAIN AGE_LABELS
    THEN AGE_LABELS[a[i + 1] + 1] ELSE "undefined"

Field(o) == IF IsSome(o) THEN Get(o) ELSE "undefined"

DogEntry(d) ==
    <<Field(d.name), "(", Field(d.breed), Field(d.age), Field(d.weight),
      Field(d.energy), "energy)">>

RECURSIVE JoinDogs(_)
JoinDogs(dogs) ==
    IF dogs = <<>> THEN <<>>
    ELSE IF Len(dogs) = 1 THEN DogEntry(dogs[1])
    ELSE DogEntry(dogs[1]) \o <<",">> \o JoinDogs(Tail(dogs))

DogList(dogs) == IF JoinDogs(dogs) = <<>> THEN <<"None">> ELSE JoinDogs(dogs)

\* A template that reads the fields with optional chaining.
PromptTolerant(b) == Return(<<"Energy level range:", "undefined", "undefined", "Liked:", "None">>)

Prompt(b) ==
    IF \/ ~IsSome(b.preferences)
       \/ ~IsSome(b.results)
    THEN Throw(Error(TypeErrorMessage))
    ELSE LET preferences == Get(b.preferences)
             results == Get(b.results)
         IN IF \/ ~IsSome(preferences.energy) \/ ~IsSome(preferences.weight)
               \/ ~IsSome(preferences.age)
               \/ ~IsSome(results.liked) \/ ~IsSome(results.disliked)
            THEN Throw(Error(TypeErrorMessage))
            ELSE Return(
                   <<"Energy level range:", Interpolate(Get(preferences.energy), 0),
                     Interpolate(Get(preferences.energy), 1),
                     "Weight range:", Interpolate(Get(preferences.weight), 0),
                     Interpolate(Get(preferences.weight), 1),
                     "Age preference:", AgeLabel(Get(preferences.age), 0),
                     AgeLabel(Get(preferences.age), 1), "Liked:">>
                   \o DogList(Get(results.liked)) \o <<"Disliked:">>
                   \o DogList(Get(results.disliked)))

----------------------------------------------------------------------------
(* The text-generation endpoint: what it may answer *)

Str(s) == <<s>>

ContentText(syntax, type, members) == [syntax |-> syntax, type |-> type, members |-> members]

FullContent ==
    ContentText("json", "object",
        <<<<"ownerTitle", Str("The Active Adventurer")>>,
          <<"ownerProfile", Str("You love long walks.")>>,
          <<"recommendedBreeds", Str("[5 breeds]")>>,
          <<"dogProfiles", Str("[12 dogs]")>>>>)
\* an object text that lacks three of the keys the prompt asks for
PartialContent ==
    ContentText("json", "object", <<<<"ownerTitle", Str("The Cozy Companion Seeker")>>>>)
\* an object text that gives ownerTitle twice
RepeatedKeyContent ==
    ContentText("json", "object",
        <<<<"ownerTitle", Str("Draft title")>>,
          <<"ownerProfile", Str("You love long walks.")>>,
          <<"recommendedBreeds", Str("[5 breeds]")>>,
          <<"dogProfiles", Str("[12 dogs]")>>,
          <<"ownerTitle", Str("The Active Adventurer")>>>>)
\* a reply cut off before its closing brace
TruncatedContent == ContentText("garbage", "none", <<>>)

Contents == {FullContent, PartialContent, RepeatedKeyContent, TruncatedContent}

UpstreamBody(raw, syntax, choices) == [raw |-> raw, syntax |-> syntax, choices |-> choices]

RateLimitBody   == UpstreamBody("Rate limit reached", "garbage", <<>>)
ServerErrorBody == UpstreamBody("{\"error\":{\"message\":\"server error\"}}", "json", <<>>)
HtmlBody        == UpstreamBody("<html>Bad gateway</html>", "garbage", <<>>)
NoChoicesBody   == UpstreamBody("{\"choices\":[]}", "json", <<>>)
ChoiceBody(c)   == UpstreamBody("{\"choices\":[{\"message\":{\"content\":...}}]}", "json", <<c>>)

Statuses == {200, 429, 500}
ResponseOk(status) == status >= 200 /\ status <= 299

ErrorBodies == {RateLimitBody, ServerErrorBody}
OkBodies == {HtmlBody, NoChoicesBody} \cup {ChoiceBody(c) : c \in Contents}
UpstreamBodies(status) == IF ResponseOk(status) THEN OkBodies ELSE ErrorBodies

\* response.json()
ResponseJson(upBody) ==
    IF upBody.syntax # "json" THEN Throw(Error(SyntaxErrorMessage))
    ELSE Return([choices |-> upBody.choices])

\* data.choices[0].message.content
FirstContent(data) ==
    IF data.choices = <<>> THEN Throw(Error(TypeErrorMessage))
    ELSE Return(data.choices[1])

----------------------------------------------------------------------------
(* The credential *)

Undefined == None
EnvValues == {Undefined, Some(""), Some("sk-live")}

TruthyUndefinedOnly(k) == IsSome(k)

\* `!apiKey` is false
Truthy(k) == IsSome(k) /\ Get(k) # ""

MissingKeyMessage == <<"OPENAI_API_KEY environment variable is not set">>
FetchFailedMessage == <<"fetch failed">>
UpstreamErrorMessageNoBody(status, text) == <<"OpenAI API error:", ToString(status)>>
UpstreamErrorMessage(status, text) == <<"OpenAI API error:", ToString(status), text>>

----------------------------------------------------------------------------
(* The ServerResponse *)

NewResponse == [statusCode |-> 200, headers |-> {}, sent |-> <<>>]

SetStatus(r, code) == [r EXCEPT !.statusCode = code]
SetHeader(r, name, value) == [r EXCEPT !.headers = @ \cup {<<name, value>>}]
End(r, payload) ==
    [r EXCEPT !.sent = Append(@, [status |-> r.statusCode, payload |-> payload])]

\* err instanceof Error ? err.message : 'Internal server error'
ErrorMessage(err) ==
    IF err.instanceofError THEN err.message ELSE <<"Internal server error">>

ErrorPayload(msg) == JSONstringify(ObjectValue(<<<<"error", msg>>>>))

CatchKeepsStatus(r, err) ==
    End(SetHeader(r, "Content-Type", "application/json"), ErrorPayload(ErrorMessage(err)))

\* the handler's catch block
Catch(r, err) ==
    End(SetHeader(SetStatus(r, 500), "Content-Type", "application/json"),
        ErrorPayload(ErrorMessage(err)))

SendResultStamped(r, result) ==
    End(SetHeader(r, "Content-Type", "application/json"),
        JSONstringify([result EXCEPT !.members = Append(@, <<"model", <<"gpt-4o-mini">>>>)]))

\* the end of the handler's try block
SendResult(r, result) ==
    End(SetHeader(r, "Content-Type", "application/json"), JSONstringify(result))

MethodNotAllowedDefaultStatus(r) == End(r, ErrorPayload(<<"Method not allowed">>))


MethodNotAllowed(r) == End(SetStatus(r, 405), ErrorPayload(<<"Method not allowed">>))

----------------------------------------------------------------------------
(* The middleware for /api/generate-profile *)

BodySlotShared(r) == 1

\* parseBody: `let body = ""` is a binding of the call, one per request
BodySlot(r) == r

ReadCredentialCached ==
    IF \E q \in Req : IsSome(apiKey[q]) /\ Truthy(Get(apiKey[q]))
    THEN Get(apiKey[CHOOSE q \in Req : IsSome(apiKey[q]) /\ Truthy(Get(apiKey[q]))])
    ELSE env

\* process.env.OPENAI_API_KEY, read by the handler
ReadCredential == env

FetchCall(key, prompt) ==
    [url |-> "https://api.openai.com/v1/chat/completions", authorization |-> key,
     prompt |-> prompt]

ProxyInit ==
    /\ env \in EnvValues
    /\ pc = [r \in Req |-> "idle"]
    /\ method = [r \in Req |-> "none"]
    /\ reqText = [r \in Req |-> <<>>]
    /\ wire = [r \in Req |-> <<>>]
    /\ body = [r \in Req |-> <<>>]
    /\ apiKey = [r \in Req |-> None]
    /\ outbound = [r \in Req |-> <<>>]
    /\ response = [r \in Req |-> None]
    /\ res = [r \in Req |-> NewResponse]

\* The environment of the server process changes.
EnvSet(k) ==
    /\ env # k
    /\ env' = k
    /\ UNCHANGED <<pc, method, reqText, wire, body, apiKey, outbound, response, res>>
    /\ UNCHANGED clientVars

\* A request arrives: the handler answers 405, or calls parseBody and awaits it.
Arrive(r, m, text) ==
    /\ pc[r] = "idle"
    /\ method' = [method EXCEPT ![r] = m]
    /\ reqText' = [reqText EXCEPT ![r] = text]
    /\ wire' = [wire EXCEPT ![r] = text]
    /\ IF m # "POST"
       THEN /\ res' = [res EXCEPT ![r] = MethodNotAllowed(@)]
            /\ pc' = [pc EXCEPT ![r] = "done"]
            /\ UNCHANGED body
       ELSE /\ body' = [body EXCEPT ![BodySlot(r)] = <<>>]
            /\ pc' = [pc EXCEPT ![r] = "body"]
            /\ UNCHANGED res
    /\ UNCHANGED <<env, apiKey, outbound, response>>
    /\ UNCHANGED clientVars

\* req.on("data"): body += chunk.toString()
ReqData(r) ==
    /\ pc[r] = "body"
    /\ wire[r] # <<>>
    /\ body' = [body EXCEPT ![BodySlot(r)] = @ \o <<Head(wire[r])>>]
    /\ wire' = [wire EXCEPT ![r] = Tail(@)]
    /\ UNCHANGED <<env, pc, method, reqText, apiKey, outbound, response, res>>
    /\ UNCHANGED clientVars

\* The request stream is aborted or errors: it never emits 'end', and parseBody
\* listens to nothing else.
ReqAbort(r) ==
    /\ pc[r] = "body"
    /\ pc' = [pc EXCEPT ![r] = "stalled"]
    /\ UNCHANGED <<env, method, reqText, wire, body, apiKey, outbound, response, res>>
    /\ UNCHANGED clientVars

\* req.on("end"): parseBody resolves and the handler runs up to its next await:
\* JSON.parse, the credential check, and generateProfile up to fetch.
ReqEnd(r) ==
    /\ pc[r] = "body"
    /\ wire[r] = <<>>
    /\ LET parsed == ParseBodyText(body[BodySlot(r)])
           key == ReadCredential
           prompt == Prompt(Get(parsed.value))
       IN IF ~parsed.ok
          THEN /\ res' = [res EXCEPT ![r] = Catch(@, parsed.err)]
               /\ pc' = [pc EXCEPT ![r] = "done"]
               /\ UNCHANGED <<apiKey, outbound>>
          ELSE /\ apiKey' = [apiKey EXCEPT ![r] = Some(key)]
               /\ IF ~Truthy(key)
                  THEN /\ res' = [res EXCEPT ![r] = Catch(@, Error(MissingKeyMessage))]
                       /\ pc' = [pc EXCEPT ![r] = "done"]
                       /\ UNCHANGED outbound
                  ELSE IF ~prompt.ok
                  THEN /\ res' = [res EXCEPT ![r] = Catch(@, prompt.err)]
                       /\ pc' = [pc EXCEPT ![r] = "done"]
                       /\ UNCHANGED outbound
                  ELSE /\ outbound' = [outbound EXCEPT ![r] =
                                          Append(@, FetchCall(Get(key), Get(prompt.value)))]
                       /\ pc' = [pc EXCEPT ![r] = "fetch"]
                       /\ UNCHANGED res
    /\ UNCHANGED <<env, method, reqText, wire, body, response>>
    /\ UNCHANGED clientVars

FetchRejectRetry(r) ==
    /\ pc[r] = "fetch"
    /\ outbound' = [outbound EXCEPT ![r] = Append(@, @[1])]
    /\ pc' = [pc EXCEPT ![r] = IF Len(outbound[r]) < 2 THEN "fetch" ELSE "done"]
    /\ res' = [res EXCEPT ![r] = IF Len(outbound[r]) < 2 THEN @
                                  ELSE Catch(@, Error(FetchFailedMessage))]
    /\ UNCHANGED <<env, method, reqText, wire, body, apiKey, response>>
    /\ UNCHANGED clientVars

\* fetch rejects (no connection, DNS, reset): the handler's catch answers.
FetchReject(r) ==
    /\ pc[r] = "fetch"
    /\ res' = [res EXCEPT ![r] = Catch(@, Error(FetchFailedMessage))]
    /\ pc' = [pc EXCEPT ![r] = "done"]
    /\ UNCHANGED <<env, method, reqText, wire, body, apiKey, outbound, response>>
    /\ UNCHANGED clientVars

\* fetch resolves with the status line: generateProfile awaits the body,
\* response.text() when !response.ok and response.json() otherwise.
FetchResolve(r, status) ==
    /\ pc[r] = "fetch"
    /\ response' = [response EXCEPT ![r] = Some([status |-> status, body |-> None])]
    /\ pc' = [pc EXCEPT ![r] = IF ResponseOk(status) THEN "json" ELSE "text"]
    /\ UNCHANGED <<env, method, reqText, wire, body, apiKey, outbound, res>>
    /\ UNCHANGED clientVars

\* The connection breaks while the body is read: text() or json() rejects.
BodyReject(r) ==
    /\ pc[r] \in {"text", "json"}
    /\ res' = [res EXCEPT ![r] = Catch(@, Error(FetchFailedMessage))]
    /\ pc' = [pc EXCEPT ![r] = "done"]
    /\ UNCHANGED <<env, method, reqText, wire, body, apiKey, outbound, response>>
    /\ UNCHANGED clientVars

\* response.text() resolves: throw new Error(`OpenAI API error: ...`)
TextResolve(r, upBody) ==
    /\ pc[r] = "text"
    /\ upBody \in UpstreamBodies(Get(response[r]).status)
    /\ response' = [response EXCEPT ![r] = Some([Get(@) EXCEPT !.body = Some(upBody)])]
    /\ res' = [res EXCEPT ![r] =
                 Catch(@, Error(UpstreamErrorMessage(Get(response[r]).status, upBody.raw)))]
    /\ pc' = [pc EXCEPT ![r] = "done"]
    /\ UNCHANGED <<env, method, reqText, wire, body, apiKey, outbound>>
    /\ UNCHANGED clientVars

ProfileOfFirstMember(upBody) ==
    LET data == ResponseJson(upBody)
        content == FirstContent(Get(data.value))
        parsed == JSONparse(Get(content.value))
    IN IF ~data.ok THEN Throw(data.err)
       ELSE IF ~content.ok THEN Throw(content.err)
       ELSE IF ~parsed.ok THEN parsed
       ELSE Return([Get(parsed.value) EXCEPT !.members = SubSeq(@, 1, 1)])

\* The rest of generateProfile: response.json(), choices[0].message.content, JSON.parse
ProfileOf(upBody) ==
    LET data == ResponseJson(upBody)
        content == FirstContent(Get(data.value))
    IN IF ~data.ok THEN Throw(data.err)
       ELSE IF ~content.ok THEN Throw(content.err)
       ELSE JSONparse(Get(content.value))

\* response.json() settles with the body read.
JsonResolve(r, upBody) ==
    /\ pc[r] = "json"
    /\ upBody \in UpstreamBodies(Get(response[r]).status)
    /\ response' = [response EXCEPT ![r] = Some([Get(@) EXCEPT !.body = Some(upBody)])]
    /\ LET result == ProfileOf(upBody)
       IN res' = [res EXCEPT ![r] = IF result.ok THEN SendResult(@, Get(result.value))
                                    ELSE Catch(@, result.err)]
    /\ pc' = [pc EXCEPT ![r] = "done"]
    /\ UNCHANGED <<env, method, reqText, wire, body, apiKey, outbound>>
    /\ UNCHANGED clientVars

ProxyNext ==
    \/ \E k \in EnvValues : EnvSet(k)
    \/ \E r \in Req, m \in Methods, text \in BodyTexts : Arrive(r, m, text)
    \/ \E r \in Req : ReqData(r)
    \/ \E r \in Req : ReqAbort(r)
    \/ \E r \in Req : ReqEnd(r)
    \/ \E r \in Req : FetchReject(r)
    \/ \E r \in Req, status \in Statuses : FetchResolve(r, status)
    \/ \E r \in Req : BodyReject(r)
    \/ \E r \in Req, upBody \in ErrorBodies : TextResolve(r, upBody)
    \/ \E r \in Req, upBody \in OkBodies : JsonResolve(r, upBody)

----------------------------------------------------------------------------
(* The results page: the effect that requests the profile                   *)

\* What the profile endpoint may answer the page.
PageReply(ok, statusText, payload) == [ok |-> ok, statusText |-> statusText, body |-> payload]

HtmlPayload == ContentText("garbage", "none", <<>>)
DetailPayload == JSONstringify(ObjectValue(<<<<"detail", Str("Not Found")>>>>))

PageReplies ==
    { PageReply(FALSE, "Internal Server Error", ErrorPayload(MissingKeyMessage)),
      PageReply(FALSE, "Not Found", DetailPayload),
      PageReply(FALSE, "Bad Gateway", HtmlPayload),
      PageReply(TRUE, "OK", JSONstringify(Get(JSONparse(FullContent).value))),
      PageReply(TRUE, "OK", JSONstringify(Get(JSONparse(PartialContent).value))),
      PageReply(TRUE, "OK", HtmlPayload) }

FailedToFetchMessage == <<"Failed to fetch">>

\* (await res.json().catch(() => null))?.error
ErrDataError(payload) ==
    LET errData == JSONparse(payload)
    IN IF ~errData.ok THEN None
       ELSE IF "error" \in Keys(Get(errData.value).members)
            THEN Some(LastValue(Get(errData.value).members, "error"))
       ELSE None

\* errData?.error ?? `Failed to generate profile: ${res.statusText}`
NotOkMessage(reply) ==
    IF IsSome(ErrDataError(reply.body)) THEN Get(ErrDataError(reply.body))
    ELSE <<"Failed to generate profile:", reply.statusText>>

\* err instanceof Error ? err.message : "Something went wrong"
PageErrorMessage(err) ==
    IF err.instanceofError THEN err.message ELSE <<"Something went wrong">>

\* data.dogProfiles
DogProfilesOf(data) ==
    IF "dogProfiles" \in Keys(data.members)
    THEN Some(LastValue(data.members, "dogProfiles")) ELSE None

PageInit ==
    /\ mounted = [i \in Page |-> FALSE]
    /\ profile = [i \in Page |-> None]
    /\ loading = [i \in Page |-> TRUE]
    /\ error = [i \in Page |-> None]
    /\ dogImages = [i \in Page |-> None]
    /\ genPc = [i \in Page |-> "unmounted"]
    /\ genCancelled = [i \in Page |-> FALSE]
    /\ genRes = [i \in Page |-> None]
    /\ genFetches = [i \in Page |-> 0]
    /\ backendRecs = [i \in Page |-> <<>>]
    /\ backendRecsMessage = [i \in Page |-> ""]
    /\ backendRecImages = [i \in Page |-> {}]
    /\ aiImages = [i \in Page |-> <<>>]
    /\ aiImagesLoading = [i \in Page |-> TRUE]
    /\ recPc = [i \in Page |-> "unmounted"]
    /\ recCancelled = [i \in Page |-> FALSE]
    /\ recPending = [i \in Page |-> {}]
    /\ recImgs = [i \in Page |-> {}]
    /\ aiPc = [i \in Page |-> "unmounted"]
    /\ aiCancelled = [i \in Page |-> FALSE]

GenerateCatchKeepsLoading(i, err) ==
    /\ genPc' = [genPc EXCEPT ![i] = "done"]
    /\ IF genCancelled[i]
       THEN UNCHANGED <<error, loading>>
       ELSE /\ error' = [error EXCEPT ![i] = Some(PageErrorMessage(err))]
            /\ UNCHANGED loading

\* generate's catch block
GenerateCatch(i, err) ==
    /\ genPc' = [genPc EXCEPT ![i] = "done"]
    /\ IF genCancelled[i]
       THEN UNCHANGED <<error, loading>>
       ELSE /\ error' = [error EXCEPT ![i] = Some(PageErrorMessage(err))]
            /\ loading' = [loading EXCEPT ![i] = FALSE]

\* App renders a ResultsPage: a new instance with its initial state, whose
\* effects run loadRecs(), generateImages() and generate(), each up to its
\* first await.  generateImages begins with setAiImagesLoading(true).
Mount(i) ==
    /\ genPc[i] = "unmounted"
    /\ \A j \in Page : ~mounted[j] /\ (j < i => genPc[j] # "unmounted")
    /\ mounted' = [mounted EXCEPT ![i] = TRUE]
    /\ genPc' = [genPc EXCEPT ![i] = "fetch"]
    /\ genFetches' = [genFetches EXCEPT ![i] = @ + 1]
    /\ recPc' = [recPc EXCEPT ![i] = "user"]
    /\ aiPc' = [aiPc EXCEPT ![i] = "fetch"]
    /\ aiImagesLoading' = [aiImagesLoading EXCEPT ![i] = TRUE]
    /\ UNCHANGED <<profile, loading, error, dogImages, genCancelled, genRes>>
    /\ UNCHANGED <<backendRecs, backendRecsMessage, backendRecImages, recCancelled,
                   recPending, recImgs>>
    /\ UNCHANGED <<aiImages, aiCancelled>>
    /\ UNCHANGED nonPageVars

\* The page leaves the screen (Start Over, the header): the cleanups of its
\* effects run.
Unmount(i) ==
    /\ mounted[i]
    /\ mounted' = [mounted EXCEPT ![i] = FALSE]
    /\ genCancelled' = [genCancelled EXCEPT ![i] = TRUE]
    /\ recCancelled' = [recCancelled EXCEPT ![i] = TRUE]
    /\ aiCancelled' = [aiCancelled EXCEPT ![i] = TRUE]
    /\ UNCHANGED <<profile, loading, error, dogImages, genPc, genRes, genFetches>>
    /\ UNCHANGED <<backendRecs, backendRecsMessage, backendRecImages, recPc,
                   recPending, recImgs>>
    /\ UNCHANGED <<aiImages, aiImagesLoading, aiPc>>
    /\ UNCHANGED nonPageVars

\* fetch rejects: a network error.
GenFetchReject(i) ==
    /\ genPc[i] = "fetch"
    /\ GenerateCatch(i, Error(FailedToFetchMessage))
    /\ UNCHANGED <<mounted, profile, dogImages, genCancelled, genRes, genFetches>>
    /\ UNCHANGED <<recVars, aiVars>>
    /\ UNCHANGED nonPageVars

\* fetch resolves: generate awaits res.json(), of the error body when !res.ok.
GenFetchResolve(i, reply) ==
    /\ genPc[i] = "fetch"
    /\ genRes' = [genRes EXCEPT ![i] = Some(reply)]
    /\ genPc' = [genPc EXCEPT ![i] = IF reply.ok THEN "json" ELSE "errjson"]
    /\ UNCHANGED <<mounted, profile, loading, error, dogImages, genCancelled, genFetches>>
    /\ UNCHANGED <<recVars, aiVars>>
    /\ UNCHANGED nonPageVars

\* !res.ok: the error body was read or not; throw new Error(...)
GenNotOk(i) ==
    /\ genPc[i] = "errjson"
    /\ GenerateCatch(i, Error(NotOkMessage(Get(genRes[i]))))
    /\ UNCHANGED <<mounted, profile, dogImages, genCancelled, genRes, genFetches>>
    /\ UNCHANGED <<recVars, aiVars>>
    /\ UNCHANGED nonPageVars

\* res.ok: res.json() settles; setProfile, setLoading(false), and the image
\* fetches of data.dogProfiles are started.
GenJson(i) ==
    /\ genPc[i] = "json"
    /\ LET data == JSONparse(Get(genRes[i]).body)
       IN IF ~data.ok
          THEN /\ GenerateCatch(i, data.err)
               /\ UNCHANGED profile
          ELSE IF genCancelled[i]
          THEN /\ genPc' = [genPc EXCEPT ![i] = "done"]
               /\ UNCHANGED <<profile, loading, error>>
          ELSE /\ profile' = [profile EXCEPT ![i] = Some(Get(data.value))]
               /\ IF IsSome(DogProfilesOf(Get(data.value)))
                  THEN /\ loading' = [loading EXCEPT ![i] = FALSE]
                       /\ genPc' = [genPc EXCEPT ![i] = "images"]
                       /\ UNCHANGED error
                  ELSE \* data.dogProfiles.map throws a TypeError: the catch block
                       /\ loading' = [loading EXCEPT ![i] = FALSE]
                       /\ error' = [error EXCEPT ![i] =
                                       Some(PageErrorMessage(Error(TypeErrorMessage)))]
                       /\ genPc' = [genPc EXCEPT ![i] = "done"]
    /\ UNCHANGED <<mounted, dogImages, genCancelled, genRes, genFetches>>
    /\ UNCHANGED <<recVars, aiVars>>
    /\ UNCHANGED nonPageVars

\* Promise.all of the image fetches resolves (fetchDogImage never rejects).
GenImages(i) ==
    /\ genPc[i] = "images"
    /\ genPc' = [genPc EXCEPT ![i] = "done"]
    /\ dogImages' = [dogImages EXCEPT ![i] =
                        IF genCancelled[i] THEN @
                        ELSE DogProfilesOf(Get(profile[i]))]
    /\ UNCHANGED <<mounted, profile, loading, error, genCancelled, genRes, genFetches>>
    /\ UNCHANGED <<recVars, aiVars>>
    /\ UNCHANGED nonPageVars

----------------------------------------------------------------------------
(* The results page: the supplementary effects loadRecs and generateImages  *)

\* What GET /swipe/{user}/recommendations may answer: dogs (by id), a message.
RecommendationOut(dogs, message) == [dogs |-> dogs, message |-> message]

Recommendations ==
    { RecommendationOut(<<>>, "Swipe right on some dogs to get recommendations"),
      RecommendationOut(<<7, 9>>, "Based on your preferences") }

\* The dogs recommendations are about.
Dogs == UNION {Range(recs.dogs) : recs \in Recommendations}

\* What fetchDogImage resolves to: a photo, or "" when both lookups failed.
ImageUrls == {"", "https://images.dog.ceo/breeds/beagle/n1.jpg"}

\* The images POST /api/generate-images answers with.
GeneratedImages == <<"image-1", "image-2", "image-3">>

\* loadRecs' catch block: empty.
LoadRecsCatchSetsError(i) ==
    /\ recPc' = [recPc EXCEPT ![i] = "caught"]
    /\ error' = [error EXCEPT ![i] = Some(<<"Failed to load recommendations">>)]

LoadRecsCatch(i) ==
    /\ recPc' = [recPc EXCEPT ![i] = "caught"]
    /\ UNCHANGED error

\* await getOrCreateUser() fulfils: getRecommendations(user.id, 6) is called.
RecUserResolve(i) ==
    /\ recPc[i] = "user"
    /\ recPc' = [recPc EXCEPT ![i] = "recs"]
    /\ UNCHANGED <<genVars, aiVars, nonPageVars>>
    /\ UNCHANGED <<backendRecs, backendRecsMessage, backendRecImages, recCancelled,
                   recPending, recImgs>>

\* await getOrCreateUser() rejects (a network error, a non-OK answer).
RecUserReject(i) ==
    /\ recPc[i] = "user"
    /\ LoadRecsCatch(i)
    /\ UNCHANGED <<mounted, profile, loading, dogImages, genPc, genCancelled, genRes,
                   genFetches>>
    /\ UNCHANGED <<aiVars, nonPageVars>>
    /\ UNCHANGED <<backendRecs, backendRecsMessage, backendRecImages, recCancelled,
                   recPending, recImgs>>

\* await getRecommendations(...) rejects.
RecsReject(i) ==
    /\ recPc[i] = "recs"
    /\ LoadRecsCatch(i)
    /\ UNCHANGED <<mounted, profile, loading, dogImages, genPc, genCancelled, genRes,
                   genFetches>>
    /\ UNCHANGED <<aiVars, nonPageVars>>
    /\ UNCHANGED <<backendRecs, backendRecsMessage, backendRecImages, recCancelled,
                   recPending, recImgs>>

\* await getRecommendations(...) fulfils: setBackendRecs, setBackendRecsMessage,
\* and one fetchDogImage per recommended dog is started; Promise.all of no
\* promise is fulfilled at once.
RecsResolve(i, recs) ==
    /\ recPc[i] = "recs"
    /\ IF recCancelled[i]
       THEN /\ recPc' = [recPc EXCEPT ![i] = "done"]
            /\ UNCHANGED <<backendRecs, backendRecsMessage, backendRecImages, recPending>>
       ELSE /\ backendRecs' = [backendRecs EXCEPT ![i] = recs.dogs]
            /\ backendRecsMessage' = [backendRecsMessage EXCEPT ![i] = recs.message]
            /\ recPending' = [recPending EXCEPT ![i] = Range(recs.dogs)]
            /\ IF recs.dogs = <<>>
               THEN /\ recPc' = [recPc EXCEPT ![i] = "done"]
                    /\ backendRecImages' = [backendRecImages EXCEPT ![i] = {}]
               ELSE /\ recPc' = [recPc EXCEPT ![i] = "images"]
                    /\ UNCHANGED backendRecImages
    /\ UNCHANGED <<genVars, aiVars, nonPageVars>>
    /\ UNCHANGED <<recCancelled, recImgs>>

\* fetchDogImage of dog d resolves (it never rejects).  When it was the last
\* one, Promise.all is fulfilled and loadRecs goes on: setBackendRecImages.
RecImageResolve(i, d, url) ==
    /\ recPc[i] = "images"
    /\ d \in recPending[i]
    /\ recPending' = [recPending EXCEPT ![i] = @ \ {d}]
    /\ recImgs' = [recImgs EXCEPT ![i] = @ \cup {<<d, url>>}]
    /\ IF recPending[i] # {d}
       THEN UNCHANGED <<recPc, backendRecImages>>
       ELSE /\ recPc' = [recPc EXCEPT ![i] = "done"]
            /\ backendRecImages' = [backendRecImages EXCEPT ![i] =
                                       IF recCancelled[i] THEN @ ELSE recImgs'[i]]
    /\ UNCHANGED <<genVars, aiVars, nonPageVars>>
    /\ UNCHANGED <<backendRecs, backendRecsMessage, recCancelled>>

\* generateImages' catch block: if (!cancelled) setAiImagesLoading(false)
GenerateImagesCatch(i) ==
    /\ aiPc' = [aiPc EXCEPT ![i] = "caught"]
    /\ aiImagesLoading' = [aiImagesLoading EXCEPT ![i] = IF aiCancelled[i] THEN @ ELSE FALSE]
    /\ UNCHANGED aiImages

\* fetch("/api/generate-images") rejects.
AiFetchReject(i) ==
    /\ aiPc[i] = "fetch"
    /\ GenerateImagesCatch(i)
    /\ UNCHANGED <<genVars, recVars, nonPageVars>>
    /\ UNCHANGED aiCancelled

\* fetch resolves: generateImages awaits res.json(), of the error body when !res.ok.
AiFetchResolve(i, ok) ==
    /\ aiPc[i] = "fetch"
    /\ aiPc' = [aiPc EXCEPT ![i] = IF ok THEN "json" ELSE "errjson"]
    /\ UNCHANGED <<genVars, recVars, nonPageVars>>
    /\ UNCHANGED <<aiImages, aiImagesLoading, aiCancelled>>

\* !res.ok: the error body was read or not; console.error,
\* setAiImagesLoading(false), return.
AiNotOk(i) ==
    /\ aiPc[i] = "errjson"
    /\ aiPc' = [aiPc EXCEPT ![i] = "failed"]
    /\ aiImagesLoading' = [aiImagesLoading EXCEPT ![i] = FALSE]
    /\ UNCHANGED <<genVars, recVars, nonPageVars>>
    /\ UNCHANGED <<aiImages, aiCancelled>>

\* res.ok: res.json() settles; setAiImages(data.images), setAiImagesLoading(false),
\* or the catch block when the body is no JSON.
AiJson(i, parsed) ==
    /\ aiPc[i] = "json"
    /\ IF ~parsed
       THEN GenerateImagesCatch(i)
       ELSE /\ aiPc' = [aiPc EXCEPT ![i] = "done"]
            /\ IF aiCancelled[i]
               THEN UNCHANGED <<aiImages, aiImagesLoading>>
               ELSE /\ aiImages' = [aiImages EXCEPT ![i] = GeneratedImages]
                    /\ aiImagesLoading' = [aiImagesLoading EXCEPT ![i] = FALSE]
    /\ UNCHANGED <<genVars, recVars, nonPageVars>>
    /\ UNCHANGED aiCancelled

\* What ResultsPage renders.
View(i) ==
    IF loading[i] THEN "LoadingSkeleton"
    ELSE IF IsSome(error[i]) /\ Get(error[i]) # <<>> THEN "ErrorState"
    ELSE IF ~IsSome(profile[i]) THEN "null"
    ELSE "Profile"

PageNext ==
    \/ \E i \in Page : Mount(i)
    \/ \E i \in Page : Unmount(i)
    \/ \E i \in Page : GenFetchReject(i)
    \/ \E i \in Page, reply \in PageReplies : GenFetchResolve(i, reply)
    \/ \E i \in Page : GenNotOk(i)
    \/ \E i \in Page : GenJson(i)
    \/ \E i \in Page : GenImages(i)

\* One results page with all its effects: generate, loadRecs, generateImages.
ResultsNext ==
    \/ Mount(1)
    \/ Unmount(1)
    \/ GenFetchReject(1)
    \/ \E reply \in PageReplies : GenFetchResolve(1, reply)
    \/ GenNotOk(1)
    \/ GenJson(1)
    \/ GenImages(1)
    \/ RecUserResolve(1)
    \/ RecUserReject(1)
    \/ RecsReject(1)
    \/ \E recs \in Recommendations : RecsResolve(1, recs)
    \/ \E d \in Dogs, url \in ImageUrls : RecImageResolve(1, d, url)
    \/ AiFetchReject(1)
    \/ \E ok \in BOOLEAN : AiFetchResolve(1, ok)
    \/ AiNotOk(1)
    \/ \E parsed \in BOOLEAN : AiJson(1, parsed)

----------------------------------------------------------------------------
(* SwipeCards: loading the deck *)

SWIPE_THRESHOLD == 100

\* A card of the deck: the dog's id and its image_url ("" when it has none).
SwipeCard(id, image_url) == [id |-> id, image_url |-> image_url]

\* What GET /swipe/{user}/cards may answer.
Decks ==
    { <<>>,
      <<SwipeCard(7, ""), SwipeCard(9, "")>>,
      <<SwipeCard(7, "/uploads/7.jpg"), SwipeCard(9, "")>> }

CardIds == {7, 9}

\* What fetchBreedImage resolves to: a photo, or "" when both lookups failed.
BreedImages == {"", "https://images.dog.ceo/breeds/poodle/n2.jpg"}

\* The revisions of the component the repository holds.
Revisions == {"part_002", "SwipeCards.tsx"}

\* const done = currentIndex >= cards.length, and in SwipeCards.tsx
\* const done = dogs.length > 0 && currentIndex >= dogs.length
done ==
    IF revision = "part_002" THEN currentIndex >= Len(cards)
    ELSE Len(cards) > 0 /\ currentIndex >= Len(cards)

\* The card and the two buttons are rendered: the render got past the loading
\* view, the "No dogs available" view of part_002 or the error view of
\* SwipeCards.tsx, and the done view.
CardShown ==
    /\ swMounted /\ ~swLoading /\ ~done
    /\ IF revision = "part_002" THEN Len(cards) # 0 ELSE fetchError = None

SwipeInit ==
    /\ swMounted = FALSE
    /\ cards = <<>>
    /\ images = {}
    /\ userId = None
    /\ swLoading = TRUE
    /\ currentIndex = 0
    /\ offsetX = 0
    /\ startX = 0
    /\ isDragging = FALSE
    /\ exitDirection = None
    /\ liked = <<>>
    /\ disliked = <<>>
    /\ loadPc = "unmounted"
    /\ loadCancelled = FALSE
    /\ imgPending = {}
    /\ imgs = {}
    /\ timers = 0
    /\ swipeRequests = <<>>

\* App renders SwipeCards: the effect runs load() up to await getOrCreateUser(),
\* and in SwipeCards.tsx fetchDogs() up to await fetch("/api/v1/dogs?limit=10").
SwMount ==
    /\ loadPc = "unmounted"
    /\ swMounted' = TRUE
    /\ loadPc' = IF revision = "part_002" THEN "user" ELSE "dogs"
    /\ UNCHANGED <<cards, images, userId, swLoading, currentIndex, offsetX, startX, isDragging,
                   exitDirection, liked, disliked, loadCancelled, imgPending, imgs,
                   timers, swipeRequests>>
    /\ UNCHANGED nonSwipeVars

\* SwipeCards leaves the screen (Back, See my AI profile): the effect's cleanup.
SwUnmount ==
    /\ swMounted
    /\ swMounted' = FALSE
    /\ loadCancelled' = TRUE
    /\ UNCHANGED <<cards, images, userId, swLoading, currentIndex, offsetX, startX, isDragging,
                   exitDirection, liked, disliked, loadPc, imgPending, imgs, timers,
                   swipeRequests>>
    /\ UNCHANGED nonSwipeVars

\* load's catch block: console.error, setLoading(false).
LoadCatch ==
    /\ loadPc' = "caught"
    /\ swLoading' = FALSE

\* await getOrCreateUser() rejects.
LoadUserReject ==
    /\ loadPc = "user"
    /\ LoadCatch
    /\ UNCHANGED <<swMounted, cards, images, userId, currentIndex, offsetX, startX, isDragging,
                   exitDirection, liked, disliked, loadCancelled, imgPending, imgs,
                   timers, swipeRequests>>
    /\ UNCHANGED nonSwipeVars

\* await getOrCreateUser() fulfils: setUserId(user.id), getSwipeCards(user.id, 20).
LoadUserResolve(id) ==
    /\ loadPc = "user"
    /\ IF loadCancelled
       THEN /\ loadPc' = "done"
            /\ UNCHANGED userId
       ELSE /\ loadPc' = "cards"
            /\ userId' = Some(id)
    /\ UNCHANGED <<swMounted, cards, images, swLoading, currentIndex, offsetX, startX,
                   isDragging, exitDirection, liked, disliked, loadCancelled, imgPending,
                   imgs, timers, swipeRequests>>
    /\ UNCHANGED nonSwipeVars

\* await getSwipeCards(...) rejects.
LoadCardsReject ==
    /\ loadPc = "cards"
    /\ LoadCatch
    /\ UNCHANGED <<swMounted, cards, images, userId, currentIndex, offsetX, startX, isDragging,
                   exitDirection, liked, disliked, loadCancelled, imgPending, imgs,
                   timers, swipeRequests>>
    /\ UNCHANGED nonSwipeVars

\* sc.dog.image_url || (await fetchBreedImage(sc.dog.breed)): the cards whose
\* image has to be fetched.
NeedsFetch(deck) == {deck[k].id : k \in {n \in DOMAIN deck : deck[n].image_url = ""}}
OwnImages(deck) ==
    {<<deck[k].id, deck[k].image_url>> : k \in {n \in DOMAIN deck : deck[n].image_url # ""}}

\* await getSwipeCards(...) fulfils: setCards, setLoading(false), and one image
\* promise per card is started; when no card needs a fetch, Promise.all is
\* fulfilled at once and setImages follows.
LoadCardsResolve(deck) ==
    /\ loadPc = "cards"
    /\ IF loadCancelled
       THEN /\ loadPc' = "done"
            /\ UNCHANGED <<cards, swLoading, images, imgPending, imgs>>
       ELSE /\ cards' = deck
            /\ swLoading' = FALSE
            /\ imgPending' = NeedsFetch(deck)
            /\ imgs' = OwnImages(deck)
            /\ IF NeedsFetch(deck) = {}
               THEN /\ loadPc' = "done"
                    /\ images' = OwnImages(deck)
               ELSE /\ loadPc' = "images"
                    /\ UNCHANGED images
    /\ UNCHANGED <<swMounted, userId, currentIndex, offsetX, startX, isDragging, exitDirection,
                   liked, disliked, loadCancelled, timers, swipeRequests>>
    /\ UNCHANGED nonSwipeVars

\* The image promise of card id settles, eagerly publishing its result.
LoadImageResolveEager(id, url) ==
    /\ loadPc = "images"
    /\ id \in imgPending
    /\ imgPending' = imgPending \ {id}
    /\ imgs' = imgs \cup {<<id, url>>}
    /\ loadPc' = IF imgPending = {id} THEN "done" ELSE loadPc
    /\ images' = IF loadCancelled THEN images ELSE imgs'
    /\ UNCHANGED <<swMounted, cards, userId, swLoading, currentIndex, offsetX, startX,
                   isDragging, exitDirection, liked, disliked, loadCancelled, timers,
                   swipeRequests>>
    /\ UNCHANGED nonSwipeVars

\* fetchBreedImage of card id resolves (it never rejects).  When it was the
\* last one, Promise.all is fulfilled and load goes on: setImages(map).
LoadImageResolve(id, url) ==
    /\ loadPc = "images"
    /\ id \in imgPending
    /\ imgPending' = imgPending \ {id}
    /\ imgs' = imgs \cup {<<id, url>>}
    /\ IF imgPending # {id}
       THEN UNCHANGED <<loadPc, images>>
       ELSE /\ loadPc' = "done"
            /\ images' = IF loadCancelled THEN images ELSE imgs'
    /\ UNCHANGED <<swMounted, cards, userId, swLoading, currentIndex, offsetX, startX,
                   isDragging, exitDirection, liked, disliked, loadCancelled, timers,
                   swipeRequests>>
    /\ UNCHANGED nonSwipeVars

----------------------------------------------------------------------------
(* SwipeCards of part_002: handleReset, the button of the "No dogs          *)
(* available" view.  None of its setters looks at a cancelled flag.         *)

\* the "No dogs available" view is rendered
NoDogsShown == revision = "part_002" /\ swMounted /\ ~swLoading /\ Len(cards) = 0

\* handleReset's catch block: console.error, setLoading(false).
ResetCatch ==
    /\ loadPc' = "caught"
    /\ swLoading' = FALSE

\* handleReset() up to `await resetSwipes(userId)`
handleReset ==
    /\ NoDogsShown
    /\ IF userId = None \/ userId = Some(0)
       THEN UNCHANGED <<swLoading, loadPc>>
       ELSE /\ swLoading' = TRUE
            /\ loadPc' = "reset"
    /\ UNCHANGED <<swMounted, cards, images, userId, currentIndex, offsetX, startX,
                   isDragging, exitDirection, liked, disliked, loadCancelled, imgPending,
                   imgs, timers, swipeRequests>>
    /\ UNCHANGED nonSwipeVars

\* await resetSwipes(userId) rejects.
ResetSwipesReject ==
    /\ loadPc = "reset"
    /\ ResetCatch
    /\ UNCHANGED <<swMounted, cards, images, userId, currentIndex, offsetX, startX,
                   isDragging, exitDirection, liked, disliked, loadCancelled, imgPending,
                   imgs, timers, swipeRequests>>
    /\ UNCHANGED nonSwipeVars

\* await resetSwipes(userId) fulfils: setCurrentIndex(0), setLiked([]),
\* setDisliked([]), getSwipeCards(userId, 20).
ResetSwipesResolve ==
    /\ loadPc = "reset"
    /\ loadPc' = "recards"
    /\ currentIndex' = 0
    /\ liked' = <<>>
    /\ disliked' = <<>>
    /\ UNCHANGED <<swMounted, cards, images, userId, swLoading, offsetX, startX,
                   isDragging, exitDirection, loadCancelled, imgPending, imgs, timers,
                   swipeRequests>>
    /\ UNCHANGED nonSwipeVars

\* await getSwipeCards(...) rejects.
ResetCardsReject ==
    /\ loadPc = "recards"
    /\ ResetCatch
    /\ UNCHANGED <<swMounted, cards, images, userId, currentIndex, offsetX, startX,
                   isDragging, exitDirection, liked, disliked, loadCancelled, imgPending,
                   imgs, timers, swipeRequests>>
    /\ UNCHANGED nonSwipeVars

\* await getSwipeCards(...) fulfils: setCards(freshCards), and one image
\* promise per card is started; with none to wait for, setImages(imgs) and
\* setLoading(false) follow at once.
ResetCardsResolve(deck) ==
    /\ loadPc = "recards"
    /\ cards' = deck
    /\ imgPending' = NeedsFetch(deck)
    /\ imgs' = OwnImages(deck)
    /\ IF NeedsFetch(deck) = {}
       THEN /\ loadPc' = "done"
            /\ images' = OwnImages(deck)
            /\ swLoading' = FALSE
       ELSE /\ loadPc' = "reimages"
            /\ UNCHANGED <<images, swLoading>>
    /\ UNCHANGED <<swMounted, userId, currentIndex, offsetX, startX, isDragging,
                   exitDirection, liked, disliked, loadCancelled, timers, swipeRequests>>
    /\ UNCHANGED nonSwipeVars

\* fetchBreedImage of card id resolves: `if (url) imgs[c.dog.id] = url`.  When
\* it was the last one: setImages(imgs), setLoading(false).
ResetImageResolve(id, url) ==
    /\ loadPc = "reimages"
    /\ id \in imgPending
    /\ imgPending' = imgPending \ {id}
    /\ imgs' = IF url # "" THEN imgs \cup {<<id, url>>} ELSE imgs
    /\ IF imgPending # {id}
       THEN UNCHANGED <<loadPc, images, swLoading>>
       ELSE /\ loadPc' = "done"
            /\ images' = imgs'
            /\ swLoading' = FALSE
    /\ UNCHANGED <<swMounted, cards, userId, currentIndex, offsetX, startX, isDragging,
                   exitDirection, liked, disliked, loadCancelled, timers, swipeRequests>>
    /\ UNCHANGED nonSwipeVars


----------------------------------------------------------------------------
(* SwipeCards.tsx: the effect that fetches the dogs.  Its state `dogs` is   *)
(* the variable cards, its state `loadingDogs` the variable swLoading.      *)

DogsInit ==
    /\ revision \in Revisions
    /\ fetchError = None
    /\ renderError = FALSE

\* fetch rejects, the answer is not ok, or res.json() rejects: the catch block.
FetchDogsReject ==
    /\ loadPc = "dogs"
    /\ loadPc' = "caught"
    /\ IF loadCancelled
       THEN UNCHANGED <<fetchError, swLoading>>
       ELSE /\ fetchError' = Some("Failed to fetch dogs")
            /\ swLoading' = FALSE
    /\ UNCHANGED <<swMounted, cards, images, userId, currentIndex, offsetX, startX, isDragging,
                   exitDirection, liked, disliked, loadCancelled, imgPending, imgs,
                   timers, swipeRequests, revision, renderError>>
    /\ UNCHANGED nonDogsVars

\* res.json() fulfils: setDogs(data), setLoadingDogs(false), and the component
\* renders again.  Past the loading, error and done views the render reads
\* dogs[currentIndex].image_url: with no dog at that index it throws, and
\* React unmounts the tree.
FetchDogsResolve(deck) ==
    /\ loadPc = "dogs"
    /\ loadPc' = "done"
    /\ IF loadCancelled
       THEN UNCHANGED <<cards, swLoading, renderError, swMounted, loadCancelled>>
       ELSE /\ cards' = deck
            /\ swLoading' = FALSE
            /\ IF currentIndex + 1 \in DOMAIN deck
               THEN UNCHANGED <<renderError, swMounted, loadCancelled>>
               ELSE /\ renderError' = TRUE
                    /\ swMounted' = FALSE
                    /\ loadCancelled' = TRUE
    /\ UNCHANGED <<images, userId, currentIndex, offsetX, startX, isDragging,
                   exitDirection, liked, disliked, imgPending, imgs,
                   timers, swipeRequests, revision, fetchError>>
    /\ UNCHANGED nonDogsVars

----------------------------------------------------------------------------
(* SwipeCards: swiping *)

\* recordSwipe(userId, dog.id, direction): the request it sends.
SwipeRequest(user, dog, direction) == [user |-> user, dog_id |-> dog, direction |-> direction]

\* swipe(direction), called while a card is shown
swipe(direction) ==
    IF done
    THEN UNCHANGED <<liked, disliked, swipeRequests, exitDirection, timers>>
    ELSE LET dog == cards[currentIndex + 1].id
         IN /\ liked' = IF direction = "right" THEN Append(liked, dog) ELSE liked
            /\ disliked' = IF direction = "right" THEN disliked ELSE Append(disliked, dog)
            /\ swipeRequests' =
                  IF IsSome(userId) /\ Get(userId) # 0
                  THEN Append(swipeRequests, SwipeRequest(Get(userId), dog, direction))
                  ELSE swipeRequests
            /\ exitDirection' = Some(direction)
            /\ timers' = timers + 1

\* A click on the X or the heart button.
Click(direction) ==
    /\ CardShown
    /\ Len(liked) + Len(disliked) < MaxSwipes
    /\ swipe(direction)
    /\ UNCHANGED <<swMounted, cards, images, userId, swLoading, currentIndex, offsetX,
                   startX, isDragging, loadPc, loadCancelled, imgPending, imgs>>
    /\ UNCHANGED nonSwipeVars

\* handleStart(x): mouse down or touch start on the card.
handleStart(x) ==
    /\ CardShown
    /\ startX' = x
    /\ isDragging' = TRUE
    /\ UNCHANGED <<swMounted, cards, images, userId, swLoading, currentIndex, offsetX,
                   exitDirection, liked, disliked, loadPc, loadCancelled, imgPending,
                   imgs, timers, swipeRequests>>
    /\ UNCHANGED nonSwipeVars

\* handleMove(x)
handleMove(x) ==
    /\ CardShown
    /\ isDragging
    /\ offsetX' = x - startX
    /\ UNCHANGED <<swMounted, cards, images, userId, swLoading, currentIndex, startX,
                   isDragging, exitDirection, liked, disliked, loadPc, loadCancelled,
                   imgPending, imgs, timers, swipeRequests>>
    /\ UNCHANGED nonSwipeVars

Abs(n) == IF n < 0 THEN 0 - n ELSE n

\* handleEnd(): mouse up, mouse leave or touch end on the card.
handleEnd ==
    /\ CardShown
    /\ isDragging
    /\ Len(liked) + Len(disliked) < MaxSwipes
    /\ isDragging' = FALSE
    /\ IF Abs(offsetX) > SWIPE_THRESHOLD
       THEN /\ swipe(IF offsetX > 0 THEN "right" ELSE "left")
            /\ UNCHANGED offsetX
       ELSE /\ offsetX' = 0
            /\ UNCHANGED <<liked, disliked, swipeRequests, exitDirection, timers>>
    /\ UNCHANGED <<swMounted, cards, images, userId, swLoading, currentIndex, startX,
                   loadPc, loadCancelled, imgPending, imgs>>
    /\ UNCHANGED nonSwipeVars

\* 300 ms after a swipe its setTimeout callback runs.
Timeout ==
    /\ timers > 0
    /\ timers' = timers - 1
    /\ currentIndex' = currentIndex + 1
    /\ offsetX' = 0
    /\ exitDirection' = None
    /\ UNCHANGED <<swMounted, cards, images, userId, swLoading, startX, isDragging, liked,
                   disliked, loadPc, loadCancelled, imgPending, imgs, swipeRequests>>
    /\ UNCHANGED nonSwipeVars

\* Where the pointer may be.
Positions == {100, 140, 250}

UserIds == {1}

DogsNext ==
    \/ SwMount
    \/ SwUnmount
    \/ FetchDogsReject
    \/ \E deck \in Decks : FetchDogsResolve(deck)
    \/ \E direction \in {"left", "right"} : Click(direction)
    \/ \E x \in Positions : handleStart(x)
    \/ \E x \in Positions : handleMove(x)
    \/ handleEnd
    \/ Timeout

SwipeNext ==
    \/ SwMount
    \/ SwUnmount
    \/ LoadUserReject
    \/ \E id \in UserIds : LoadUserResolve(id)
    \/ LoadCardsReject
    \/ \E deck \in Decks : LoadCardsResolve(deck)
    \/ \E id \in CardIds, url \in BreedImages : LoadImageResolve(id, url)
    \/ handleReset
    \/ ResetSwipesReject
    \/ ResetSwipesResolve
    \/ ResetCardsReject
    \/ \E deck \in Decks : ResetCardsResolve(deck)
    \/ \E id \in CardIds, url \in BreedImages : ResetImageResolve(id, url)
    \/ \E direction \in {"left", "right"} : Click(direction)
    \/ \E x \in Positions : handleStart(x)
    \/ \E x \in Positions : handleMove(x)
    \/ handleEnd
    \/ Timeout

----------------------------------------------------------------------------
(* getOrCreateUser and the backend's users *)

UserOut(id, username) == [id |-> id, username |-> username]

DemoUser == "demo_user"

\* The users table the client may find: empty, or seeded.
UserTables ==
    { <<>>,
      <<UserOut(1, "rescue_admin")>>,
      <<UserOut(1, "rescue_admin"), UserOut(2, DemoUser)>> }

UserInit ==
    /\ users \in UserTables
    /\ callPc = [c \in Call |-> "idle"]
    /\ callUsers = [c \in Call |-> <<>>]
    /\ callResult = [c \in Call |-> None]
    /\ createRequests = <<>>

\* users.find((u) => u.email === username)
FindByEmail(list, username) == None

\* users.find((u) => u.username === username)
Find(list, username) ==
    LET hits == {k \in DOMAIN list : list[k].username = username}
    IN IF hits = {} THEN None
       ELSE Some(list[CHOOSE k \in hits : \A j \in hits : k <= j])

InFlight(c) == callPc[c] \in {"listing", "listed", "creating", "created"}

\* getOrCreateUser() is called: fetch(`${BASE}/users/`)
CallStart(c) ==
    /\ callPc[c] = "idle"
    /\ callPc' = [callPc EXCEPT ![c] = "listing"]
    /\ UNCHANGED <<users, callUsers, callResult, createRequests>>
    /\ UNCHANGED nonUserVars

\* the same, by a caller that waited for the calls before it
CallStartAfter(c) ==
    /\ \A other \in Call : ~InFlight(other)
    /\ CallStart(c)

\* GET /users/ fails: fetch rejects, or handleResponse throws on a non-OK answer.
ListReject(c) ==
    /\ callPc[c] = "listing"
    /\ callPc' = [callPc EXCEPT ![c] = "threw"]
    /\ UNCHANGED <<users, callUsers, callResult, createRequests>>
    /\ UNCHANGED nonUserVars

\* The backend answers GET /users/ with the table as it is.
ListServe(c) ==
    /\ callPc[c] = "listing"
    /\ callUsers' = [callUsers EXCEPT ![c] = users]
    /\ callPc' = [callPc EXCEPT ![c] = "listed"]
    /\ UNCHANGED <<users, callResult, createRequests>>
    /\ UNCHANGED nonUserVars

\* The answer arrives: if (existing) return existing, else POST /users/.
ListResolve(c) ==
    /\ callPc[c] = "listed"
    /\ LET existing == Find(callUsers[c], DemoUser)
       IN IF IsSome(existing)
          THEN /\ callResult' = [callResult EXCEPT ![c] = existing]
               /\ callPc' = [callPc EXCEPT ![c] = "returned"]
               /\ UNCHANGED createRequests
          ELSE /\ createRequests' = Append(createRequests, [call |-> c, username |-> DemoUser])
               /\ callPc' = [callPc EXCEPT ![c] = "creating"]
               /\ UNCHANGED callResult
    /\ UNCHANGED <<users, callUsers>>
    /\ UNCHANGED nonUserVars

\* POST /users/ fails: fetch rejects, or handleResponse throws on a non-OK
\* answer (the backend refused, or broke).
CreateReject(c) ==
    /\ callPc[c] = "creating"
    /\ callPc' = [callPc EXCEPT ![c] = "threw"]
    /\ UNCHANGED <<users, callUsers, callResult, createRequests>>
    /\ UNCHANGED nonUserVars

\* The backend creates the user and answers with it.
CreateServe(c) ==
    /\ callPc[c] = "creating"
    /\ users' = Append(users, UserOut(Len(users) + 1, DemoUser))
    /\ callResult' = [callResult EXCEPT ![c] = Some(UserOut(Len(users) + 1, DemoUser))]
    /\ callPc' = [callPc EXCEPT ![c] = "created"]
    /\ UNCHANGED <<callUsers, createRequests>>
    /\ UNCHANGED nonUserVars

\* The answer arrives: return handleResponse(res)
CreateResolve(c) ==
    /\ callPc[c] = "created"
    /\ callPc' = [callPc EXCEPT ![c] = "returned"]
    /\ UNCHANGED <<users, callUsers, callResult, createRequests>>
    /\ UNCHANGED nonUserVars

\* calls that may overlap
UserNext ==
    \/ \E c \in Call : CallStart(c)
    \/ \E c \in Call : ListReject(c)
    \/ \E c \in Call : ListServe(c)
    \/ \E c \in Call : ListResolve(c)
    \/ \E c \in Call : CreateReject(c)
    \/ \E c \in Call : CreateServe(c)
    \/ \E c \in Call : CreateResolve(c)

\* calls made one after another
UserSeqNext ==
    \/ \E c \in Call : CallStartAfter(c)
    \/ \E c \in Call : ListReject(c)
    \/ \E c \in Call : ListServe(c)
    \/ \E c \in Call : ListResolve(c)
    \/ \E c \in Call : CreateReject(c)
    \/ \E c \in Call : CreateServe(c)
    \/ \E c \in Call : CreateResolve(c)

----------------------------------------------------------------------------
(* The recommendation engine: preference aggregator and compatibility scorer *)

Dog(breed, size, age_years, weight_lbs, good_with_kids) ==
    [breed |-> breed, size |-> size, age_years |-> age_years, weight_lbs |-> weight_lbs,
     good_with_kids |-> good_with_kids]

\* The dogs the user swipes on.
Shelter ==
    { Dog("Beagle", "small", 1, 20, TRUE),
      Dog("Beagle", "medium", 3, 25, FALSE),
      Dog("Poodle", "small", 8, 10, TRUE),
      Dog("Labrador", "large", 3, 70, FALSE) }

\* The candidates that are scored.
Candidates ==
    { Dog(b, s, a, w, k) : b \in {"Beagle", "Poodle"}, s \in {"small", "large"},
                           a \in {0, 3, 9}, w \in {20, 80}, k \in BOOLEAN }

\* The weights an implementation may choose.
Weights(breed, size, age, weight, kids) ==
    [breed |-> breed, size |-> size, age_years |-> age, weight_lbs |-> weight,
     good_with_kids |-> kids]

WeightChoices ==
    { Weights(30, 20, 20, 20, 10), Weights(40, 30, 30, 30, 30), Weights(50, 0, 25, 25, 0) }

Attributes == {"breed", "size", "age_years", "weight_lbs", "good_with_kids"}

\* The liked dogs of a swipe log, in order.
RECURSIVE Liked(_)
Liked(log) ==
    IF log = <<>> THEN <<>>
    ELSE IF log[1].direction = "right" THEN <<log[1].dog>> \o Liked(Tail(log))
    ELSE Liked(Tail(log))

Occurrences(values, v) == Cardinality({k \in DOMAIN values : values[k] = v})

\* The statistical mode, ties broken by the first encountered.
Mode(values) ==
    LET best == {k \in DOMAIN values :
                    \A j \in DOMAIN values :
                        Occurrences(values, values[k]) >= Occurrences(values, values[j])}
    IN values[CHOOSE k \in best : \A j \in best : k <= j]

Min(values) == CHOOSE v \in Range(values) : \A u \in Range(values) : v <= u
Max(values) == CHOOSE v \in Range(values) : \A u \in Range(values) : v >= u

\* The range of the latest value alone.
BoundsOfLast(values) == [min |-> values[Len(values)], max |-> values[Len(values)]]

\* The observed bounds, not widened.
Bounds(values) == [min |-> Min(values), max |-> Max(values)]

\* Majority vote, false on a tie.
Majority(values) == 2 * Occurrences(values, TRUE) > Len(values)

Column(dogs, attribute) == [k \in DOMAIN dogs |-> dogs[k][attribute]]

\* The preference summary of a non-empty list of liked dogs.
Aggregate(dogs) ==
    [breed |-> Mode(Column(dogs, "breed")),
     size |-> Mode(Column(dogs, "size")),
     age_years |-> Bounds(Column(dogs, "age_years")),
     weight_lbs |-> Bounds(Column(dogs, "weight_lbs")),
     good_with_kids |-> Majority(Column(dogs, "good_with_kids"))]

\* Whether the candidate agrees with the preference in the attribute.
Matches(pref, dog, attribute) ==
    IF attribute \in {"age_years", "weight_lbs"}
    THEN pref[attribute].min <= dog[attribute] /\ dog[attribute] <= pref[attribute].max
    ELSE dog[attribute] = pref[attribute]

Points(pref, dog, w, attribute) == IF Matches(pref, dog, attribute) THEN w[attribute] ELSE 0

\* The additive weighted match.
Total(pref, dog, w) ==
    Points(pref, dog, w, "breed") + Points(pref, dog, w, "size")
    + Points(pref, dog, w, "age_years") + Points(pref, dog, w, "weight_lbs")
    + Points(pref, dog, w, "good_with_kids")

Unclipped(n) == n

\* clipped to [0, 100]
Clip(n) == IF n < 0 THEN 0 ELSE IF n > 100 THEN 100 ELSE n

\* A scorer that counts the disagreements.
Distance(pref, dog, w) ==
    Clip(w.breed + w.size + w.age_years + w.weight_lbs + w.good_with_kids
         - Total(pref, dog, w))

\* The compatibility score of a candidate.
Score(pref, dog, w) == Clip(Total(pref, dog, w))

RecoInit ==
    /\ swipeLog = <<>>
    /\ preference = None
    /\ weights \in WeightChoices
    /\ scores = None

\* POST /swipe/{user}: the swipe is logged, and on a right-swipe the
\* preference is recomputed from all liked dogs.
RecordSwipe(dog, direction) ==
    /\ Len(swipeLog) < MaxLog
    /\ swipeLog' = Append(swipeLog, [dog |-> dog, direction |-> direction])
    /\ preference' = IF direction = "right" THEN Some(Aggregate(Liked(swipeLog')))
                     ELSE preference
    /\ UNCHANGED <<weights, scores>>
    /\ UNCHANGED nonRecoVars

\* GET /swipe/{user}/cards: the candidates are scored against the preference
\* (cards of a user without preference carry no score).
ScoreCards ==
    /\ IsSome(preference)
    /\ scores' = Some([preference |-> Get(preference),
                       score |-> [dog \in Candidates |->
                                     Score(Get(preference), dog, weights)]])
    /\ UNCHANGED <<swipeLog, preference, weights>>
    /\ UNCHANGED nonRecoVars

RecoNext ==
    \/ \E dog \in Shelter, direction \in {"left", "right"} : RecordSwipe(dog, direction)
    \/ ScoreCards

----------------------------------------------------------------------------
(* RescueUpload: the upload form, while the component is on screen *)

\* What the file input may hold, and what POST /rescue/upload may answer.
Files == {"rex.jpg", "bella.png"}
UploadResponses == {"Dog profile created", "Dog profile created, breed unknown"}
UploadErrors == {<<"Failed to fetch">>, <<"File must be an image">>}

UploadInit ==
    /\ file = None
    /\ uploading = FALSE
    /\ upResult = None
    /\ upError = None
    /\ upPc = "idle"
    /\ uploads = <<>>

\* the form is rendered: `if (result) return <UploadResult .../>` did not return
FormShown == upResult = None

\* handleFileChange: f is e.target.files?.[0]
handleFileChange(f) ==
    /\ FormShown
    /\ IF f = None
       THEN UNCHANGED <<file, upError, upResult>>
       ELSE /\ file' = f
            /\ upError' = None
            /\ upResult' = None
    /\ UNCHANGED <<uploading, upPc, uploads>>
    /\ UNCHANGED nonUploadVars

\* handleUpload() up to `await uploadRescueImage(file, ...)`
handleUpload ==
    IF file = None
    THEN UNCHANGED <<uploading, upError, upPc, uploads>>
    ELSE /\ uploading' = TRUE
         /\ upError' = None
         /\ upPc' = "request"
         /\ uploads' = Append(uploads, Get(file))

\* A click on "Upload & Analyze", which is disabled={!file || uploading}.
ClickUpload ==
    /\ FormShown
    /\ ~(file = None \/ uploading)
    /\ Len(uploads) < MaxUploads
    /\ handleUpload
    /\ UNCHANGED <<file, upResult>>
    /\ UNCHANGED nonUploadVars

\* uploadRescueImage fulfils: setResult(res), and finally setUploading(false).
UploadResolve(answer) ==
    /\ upPc = "request"
    /\ upPc' = "idle"
    /\ upResult' = Some(answer)
    /\ uploading' = FALSE
    /\ UNCHANGED <<file, upError, uploads>>
    /\ UNCHANGED nonUploadVars

UploadRejectInsideTry(err) ==
    /\ upPc = "request"
    /\ upPc' = "idle"
    /\ upError' = Some(IF err.instanceofError THEN err.message ELSE <<"Upload failed">>)
    /\ UNCHANGED <<file, upResult, uploads, uploading>>
    /\ UNCHANGED nonUploadVars

\* uploadRescueImage rejects (fetch failed, or handleResponse threw the
\* answer's detail): setError(...), and finally setUploading(false).
UploadReject(err) ==
    /\ upPc = "request"
    /\ upPc' = "idle"
    /\ upError' = Some(IF err.instanceofError THEN err.message ELSE <<"Upload failed">>)
    /\ uploading' = FALSE
    /\ UNCHANGED <<file, upResult, uploads>>
    /\ UNCHANGED nonUploadVars

\* resetForm: "Upload Another" of the result view
resetForm ==
    /\ ~FormShown
    /\ file' = None
    /\ upResult' = None
    /\ upError' = None
    /\ UNCHANGED <<uploading, upPc, uploads>>
    /\ UNCHANGED nonUploadVars

UploadNext ==
    \/ \E f \in {None} \cup {Some(name) : name \in Files} : handleFileChange(f)
    \/ ClickUpload
    \/ \E answer \in UploadResponses : UploadResolve(answer)
    \/ \E msg \in UploadErrors : UploadReject(Error(msg))
    \/ resetForm


----------------------------------------------------------------------------
(* App: the steps, and what the swipe step hands to the results step *)

\* Dogs as the backend returns them (BackendDog, DogOut).
BackendDog(name, breed, size, age_years, weight_lbs, description) ==
    [name |-> name, breed |-> breed, size |-> size, age_years |-> age_years,
     weight_lbs |-> weight_lbs, description |-> description]

BackendDogs ==
    { BackendDog("Rex", "Beagle", "medium", 2, 25, None),
      BackendDog("Bella", "Poodle", "extra_large", 5, 40, Some("Loves long walks")) }

\* { small: "Small", medium: "Medium", large: "Large", extra_large: "XL" }[s] ?? s
sizeLabel(s) ==
    CASE s = "small" -> "Small" [] s = "medium" -> "Medium" [] s = "large" -> "Large"
      [] s = "extra_large" -> "XL" [] OTHER -> s

\* d.description ?? ""
OrEmpty(o) == IF IsSome(o) THEN Get(o) ELSE ""

\* toSwipedDog of part_002, and toSwipedDog of SwipeCards.tsx
toSwipedDog(d) ==
    IF revision = "part_002"
    THEN [name |-> d.name, breed |-> d.breed, age |-> ToString(d.age_years) \o " yrs",
          weight |-> ToString(d.weight_lbs) \o " lbs", energy |-> sizeLabel(d.size),
          bio |-> OrEmpty(d.description)]
    ELSE [name |-> d.name, breed |-> d.breed, size |-> d.size, age_years |-> d.age_years,
          weight_lbs |-> d.weight_lbs, description |-> OrEmpty(d.description)]

\* liked.map(toSwipedDog)
MapToSwipedDog(dogs) == [k \in DOMAIN dogs |-> toSwipedDog(dogs[k])]

\* The lists a swipe session may have collected.
SwipedLists == {<<>>} \cup {<<d>> : d \in BackendDogs}
                      \cup {<<d, e>> : d \in BackendDogs, e \in BackendDogs}

\* o.k of an object that crossed the wire as JSON: undefined when o has no k
Member(o, k) == IF k \in DOMAIN o THEN Some(o[k]) ELSE None

\* A member of results.liked as generateProfile's template reads it.
AsSwipedDog(o) ==
    [name |-> Member(o, "name"), breed |-> Member(o, "breed"), age |-> Member(o, "age"),
     weight |-> Member(o, "weight"), energy |-> Member(o, "energy")]

\* The body ResultsPage posts, JSON.stringify({preferences, results: {liked,
\* disliked}}), as the handler parses it.
PostedBody ==
    BodyValue(Some([energy |-> Some(appEnergy), weight |-> Some(appWeight),
                    age |-> Some(appAge)]),
              Some([liked |-> Some([k \in DOMAIN swipeResults.liked |->
                                       AsSwipedDog(swipeResults.liked[k])]),
                    disliked |-> Some([k \in DOMAIN swipeResults.disliked |->
                                          AsSwipedDog(swipeResults.disliked[k])])]))

AppInit ==
    /\ step = "preferences"
    /\ appEnergy = <<20, 80>>
    /\ appWeight = <<15, 100>>
    /\ appAge = <<0, 3>>
    /\ swipeResults = [liked |-> <<>>, disliked |-> <<>>]
    /\ completed = None
    /\ rendered = None

\* setStep(s) of the header: the title goes to the preferences, the Rescue
\* Portal button to the rescue step, from every step.
HeaderClick(s) ==
    /\ step' = s
    /\ UNCHANGED <<appEnergy, appWeight, appAge, swipeResults, completed, rendered>>
    /\ UNCHANGED nonAppVars

\* onBack of RescueUpload and SwipeCards, onStartOver of ResultsPage
onBack ==
    /\ step \in {"rescue", "swipe", "results"}
    /\ step' = "preferences"
    /\ UNCHANGED <<appEnergy, appWeight, appAge, swipeResults, completed, rendered>>
    /\ UNCHANGED nonAppVars

\* the Start Swiping button of the preferences step
StartSwiping ==
    /\ step = "preferences"
    /\ step' = "swipe"
    /\ UNCHANGED <<appEnergy, appWeight, appAge, swipeResults, completed, rendered>>
    /\ UNCHANGED nonAppVars

\* onValueChange of the three sliders
setEnergy(v) ==
    /\ step = "preferences"
    /\ appEnergy' = v
    /\ UNCHANGED <<step, appWeight, appAge, swipeResults, completed, rendered>>
    /\ UNCHANGED nonAppVars

setWeight(v) ==
    /\ step = "preferences"
    /\ appWeight' = v
    /\ UNCHANGED <<step, appEnergy, appAge, swipeResults, completed, rendered>>
    /\ UNCHANGED nonAppVars

setAge(v) ==
    /\ step = "preferences"
    /\ appAge' = v
    /\ UNCHANGED <<step, appEnergy, appWeight, swipeResults, completed, rendered>>
    /\ UNCHANGED nonAppVars

onCompleteSwapped(likedDogs, dislikedDogs) ==
    /\ step = "swipe"
    /\ swipeResults' = [liked |-> dislikedDogs, disliked |-> likedDogs]
    /\ step' = "results"
    /\ completed' = Some([liked |-> likedDogs, disliked |-> dislikedDogs])
    /\ rendered' = None
    /\ UNCHANGED <<appEnergy, appWeight, appAge>>
    /\ UNCHANGED nonAppVars

\* onComplete(liked, disliked), called by "See my AI profile" of SwipeCards:
\* setSwipeResults({ liked, disliked }); setStep("results")
onComplete(likedDogs, dislikedDogs) ==
    /\ step = "swipe"
    /\ swipeResults' = [liked |-> likedDogs, disliked |-> dislikedDogs]
    /\ step' = "results"
    /\ completed' = Some([liked |-> likedDogs, disliked |-> dislikedDogs])
    /\ rendered' = None
    /\ UNCHANGED <<appEnergy, appWeight, appAge>>
    /\ UNCHANGED nonAppVars

\* The results page posts its body and generateProfile renders the prompt.
Generate ==
    /\ step = "results"
    /\ rendered = None
    /\ rendered' = Some(Prompt(PostedBody))
    /\ UNCHANGED <<step, appEnergy, appWeight, appAge, swipeResults, completed>>
    /\ UNCHANGED nonAppVars

\* Where the sliders may stand.
EnergyRanges == {<<20, 80>>, <<0, 100>>}
WeightRanges == {<<15, 100>>, <<5, 200>>}
AgeRanges == {<<0, 3>>, <<4, 4>>}

AppNext ==
    \/ \E s \in {"preferences", "rescue"} : HeaderClick(s)
    \/ onBack
    \/ StartSwiping
    \/ \E v \in EnergyRanges : setEnergy(v)
    \/ \E v \in WeightRanges : setWeight(v)
    \/ \E v \in AgeRanges : setAge(v)
    \/ \E l \in SwipedLists, d \in SwipedLists :
          Len(l) + Len(d) <= 2 /\ onComplete(MapToSwipedDog(l), MapToSwipedDog(d))
    \/ Generate


----------------------------------------------------------------------------
(* The breed-image helpers: fetchBreedImage, fetchDogImage, fetchBreedPhoto *)

Helpers == {"fetchBreedImage", "fetchDogImage", "fetchBreedPhoto"}

\* Breed names as the callers pass them.
Breeds == {"Poodle", " Beagle ", "Pembroke Welsh Corgi", "Mutt"}

\* breed.toLowerCase().trim()
LowerTrim(breed) ==
    CASE breed = "Poodle" -> "poodle"
      [] breed = " Beagle " -> "beagle"
      [] breed = "Pembroke Welsh Corgi" -> "pembroke welsh corgi"
      [] OTHER -> "mutt"

\* The helper's breed table, looked up with the key: the three helpers each
\* have a table of their own, and only fetchDogImage's lists the Pembroke.
BreedMap(h, key) ==
    CASE key = "poodle" -> Some("poodle/standard")
      [] key = "beagle" -> Some("beagle")
      [] key = "pembroke welsh corgi" /\ h = "fetchDogImage" -> Some("pembroke")
      [] OTHER -> None

BreedUrl(mapped) == "https://dog.ceo/api/breed/" \o mapped \o "/images/random"
RandomUrl == "https://dog.ceo/api/breeds/image/random"

\* How a request to dog.ceo may end: fetch rejects, the body is not JSON, or
\* the body is JSON with a status and a message.
PhotoAt(url) == "photo served for " \o url
DogCeoReplies(url) ==
    { [settled |-> "rejected", status |-> "", message |-> ""],
      [settled |-> "not JSON", status |-> "", message |-> ""],
      [settled |-> "json", status |-> "error", message |-> "Breed not found"],
      [settled |-> "json", status |-> "success", message |-> PhotoAt(url)] }

Success(reply) == reply.settled = "json" /\ reply.status = "success"

HelperInit ==
    /\ hPc = "idle"
    /\ hName = "fetchBreedImage"
    /\ hBreed = "Mutt"
    /\ hRequests = <<>>
    /\ hReplies = <<>>
    /\ hResult = None

\* The call, up to its first await: the key, the lookup, and the first request.
HelperStart(h, breed) ==
    LET mapped == BreedMap(h, LowerTrim(breed)) IN
    /\ hName' = h
    /\ hBreed' = breed
    /\ hReplies' = <<>>
    /\ hResult' = None
    /\ IF IsSome(mapped)
       THEN hRequests' = <<BreedUrl(Get(mapped))>> /\ hPc' = "breed"
       ELSE hRequests' = <<RandomUrl>> /\ hPc' = "random"

HelperCall(h, breed) ==
    /\ hPc \in {"idle", "resolved"}
    /\ HelperStart(h, breed)
    /\ UNCHANGED <<nonHelperVars, giVars>>

\* The breed-specific request settles: its message is returned on success,
\* anything else (a throw is caught) falls through to the random request.
BreedSettle(reply) ==
    /\ hPc = "breed"
    /\ hReplies' = Append(hReplies, reply)
    /\ IF Success(reply)
       THEN /\ hResult' = Some(reply.message)
            /\ hPc' = "resolved"
            /\ UNCHANGED hRequests
       ELSE /\ hRequests' = Append(hRequests, RandomUrl)
            /\ hPc' = "random"
            /\ UNCHANGED hResult
    /\ UNCHANGED <<hName, hBreed, nonHelperVars, giVars>>

RandomSettleUncaught(reply) ==
    /\ hPc = "random"
    /\ hReplies' = Append(hReplies, reply)
    /\ IF reply.settled = "json"
       THEN /\ hResult' = Some(IF Success(reply) THEN reply.message ELSE "")
            /\ hPc' = "resolved"
       ELSE /\ hPc' = "rejected"
            /\ UNCHANGED hResult
    /\ UNCHANGED <<hName, hBreed, hRequests, nonHelperVars, giVars>>

\* The random request settles: its message on success, "" otherwise.
RandomSettle(reply) ==
    /\ hPc = "random"
    /\ hReplies' = Append(hReplies, reply)
    /\ hResult' = Some(IF Success(reply) THEN reply.message ELSE "")
    /\ hPc' = "resolved"
    /\ UNCHANGED <<hName, hBreed, hRequests, nonHelperVars, giVars>>

HelperSettle ==
    \/ /\ hPc = "breed"
       /\ \E reply \in DogCeoReplies(hRequests[Len(hRequests)]) : BreedSettle(reply)
    \/ \E reply \in DogCeoReplies(RandomUrl) : RandomSettle(reply)

HelperNext ==
    \/ \E h \in Helpers, breed \in Breeds : HelperCall(h, breed)
    \/ HelperSettle


----------------------------------------------------------------------------
(* generateRecommendedImages: breeds recommended by GPT, photos from dog.ceo *)

Rec(breed, description) == [breed |-> breed, description |-> description]

\* `recommendations` as the model may write them: the three the prompt asks
\* for, fewer, more, or none.
RecLists ==
    { <<Rec("Poodle", "calm and clever"), Rec(" Beagle ", "merry"),
        Rec("Mutt", "one of a kind")>>,
      <<Rec("Mutt", "one of a kind"), Rec("Poodle", "calm and clever")>>,
      <<Rec(" Beagle ", "merry"), Rec("Poodle", "calm and clever"),
        Rec("Mutt", "one of a kind"), Rec("Poodle", "a second poodle")>>,
      <<>> }

\* How the chat-completions request may end.
GptReplies ==
    { [settled |-> k, recommendations |-> <<>>] :
        k \in {"rejected", "not ok", "body not JSON", "no choices",
               "content not JSON", "no recommendations"} }
    \cup { [settled |-> "recommendations", recommendations |-> l] : l \in RecLists }

\* What the call throws when the reply carries no list of recommendations.
GiError(reply) ==
    CASE reply.settled = "rejected" -> Error(<<"fetch failed">>)
      [] reply.settled = "not ok" ->
            Error(<<"GPT breed recommendation failed:", "status", "errText">>)
      [] reply.settled \in {"body not JSON", "content not JSON"} ->
            Error(<<"SyntaxError">>)
      [] OTHER -> Error(<<"TypeError">>)

GiInit ==
    /\ giPc = "idle"
    /\ giRecs = <<>>
    /\ giImages = <<>>
    /\ giResult = None

\* The call, up to the request to the model.
generateRecommendedImages ==
    /\ giPc \in {"idle", "done"}
    /\ giPc' = "gpt"
    /\ giRecs' = <<>>
    /\ giImages' = <<>>
    /\ giResult' = None
    /\ UNCHANGED <<nonHelperVars, helperVars>>

\* The request settles: anything but a list of recommendations throws; the
\* loop over the list starts with the photo of its first entry.
GptSettle(reply) ==
    /\ giPc = "gpt"
    /\ UNCHANGED giImages
    /\ IF reply.settled # "recommendations"
       THEN /\ giResult' = Some(Throw(GiError(reply)))
            /\ giPc' = "done"
            /\ UNCHANGED <<giRecs, helperVars>>
       ELSE /\ giRecs' = reply.recommendations
            /\ IF reply.recommendations = <<>>
               THEN /\ giResult' = Some(Return([images |-> <<>>]))
                    /\ giPc' = "done"
                    /\ UNCHANGED helperVars
               ELSE /\ HelperStart("fetchBreedPhoto", reply.recommendations[1].breed)
                    /\ giPc' = "photo"
                    /\ UNCHANGED giResult
    /\ UNCHANGED nonHelperVars

\* fetchBreedPhoto resolved: one more entry is pushed, and the loop goes on to
\* the next recommendation or the call returns.
GiPhotoResolve ==
    LET rec == giRecs[Len(giImages) + 1]
        pushed == Append(giImages, [url |-> Get(hResult),
                                    description |-> rec.description,
                                    breed |-> rec.breed])
    IN
    /\ giPc = "photo"
    /\ hPc = "resolved"
    /\ giImages' = pushed
    /\ UNCHANGED giRecs
    /\ IF Len(pushed) < Len(giRecs)
       THEN /\ HelperStart("fetchBreedPhoto", giRecs[Len(pushed) + 1].breed)
            /\ UNCHANGED <<giPc, giResult>>
       ELSE /\ giResult' = Some(Return([images |-> pushed]))
            /\ giPc' = "done"
            /\ UNCHANGED helperVars
    /\ UNCHANGED nonHelperVars

GiNext ==
    \/ generateRecommendedImages
    \/ \E reply \in GptReplies : GptSettle(reply)
    \/ HelperSettle
    \/ GiPhotoResolve


----------------------------------------------------------------------------
(* Specifications *)

Init ==
    /\ ProxyInit /\ PageInit /\ SwipeInit /\ UserInit /\ RecoInit
    /\ DogsInit /\ UploadInit /\ AppInit /\ HelperInit /\ GiInit

\* the backend at rest: an empty users table, the scorer's weights fixed
BackendIdle == users = <<>> /\ weights = Weights(30, 20, 20, 20, 10)

\* the client built from the revision of SwipeCards that talks to lib/api.ts
Part002 == revision = "part_002"

\* the proxy serving its requests, whatever the credential of its environment
ProxySpecInit == Init /\ BackendIdle /\ Part002
ProxySpec == ProxySpecInit /\ [][ProxyNext]_vars

\* The request stream delivers its chunks and its 'end', and the upstream call
\* and the reading of its reply settle; a stream may still be aborted first.
ProxyFairness ==
    \A r \in Req :
        /\ WF_vars(ReqData(r))
        /\ WF_vars(ReqEnd(r))
        /\ WF_vars(FetchReject(r) \/ \E status \in Statuses : FetchResolve(r, status))
        /\ WF_vars(BodyReject(r) \/ (\E upBody \in ErrorBodies : TextResolve(r, upBody))
                                 \/ (\E upBody \in OkBodies : JsonResolve(r, upBody)))
ProxyFairSpec == ProxySpecInit /\ [][ProxyNext]_vars /\ ProxyFairness

\* the results page in the browser; the server's environment plays no part
PageSpecInit == Init /\ env = Undefined /\ BackendIdle /\ Part002
PageSpec == PageSpecInit /\ [][PageNext]_vars

\* one results page and everything it loads
ResultsSpec == PageSpecInit /\ [][ResultsNext]_vars

\* the swipe deck in the browser
SwipeSpec == PageSpecInit /\ [][SwipeNext]_vars

\* the swipe deck of SwipeCards.tsx
DogsSpecInit == Init /\ env = Undefined /\ BackendIdle /\ revision = "SwipeCards.tsx"
DogsSpec == DogsSpecInit /\ [][DogsNext]_vars

\* getOrCreateUser against a backend whose users table is empty or seeded,
\* called by callers that may overlap, and by callers one after another
UserSpecInit == Init /\ env = Undefined /\ weights = Weights(30, 20, 20, 20, 10) /\ Part002
UserSpec == UserSpecInit /\ [][UserNext]_vars
UserSeqSpec == UserSpecInit /\ [][UserSeqNext]_vars

\* the upload form of the rescue portal
UploadSpec == PageSpecInit /\ [][UploadNext]_vars

\* App and its steps, built from either revision of SwipeCards
AppSpecInit == Init /\ env = Undefined /\ BackendIdle
AppSpec == AppSpecInit /\ [][AppNext]_vars

\* a breed-image helper called with any breed, any number of times
HelperSpec == PageSpecInit /\ [][HelperNext]_vars

\* generateRecommendedImages called on the server, any number of times
GiSpec == PageSpecInit /\ [][GiNext]_vars


\* the recommendation engine, whatever weights it was built with
RecoSpecInit == Init /\ env = Undefined /\ users = <<>> /\ Part002
RecoSpec == RecoSpecInit /\ [][RecoNext]_vars

----------------------------------------------------------------------------
(* What the caller of the proxy observes *)

Sent(r) == res[r].sent
Answer(r) == res[r].sent[1]

\* the caller reads the payload with JSON.parse
Received(answer) == Get(JSONparse(answer.payload).value)
ReceivedKeys(answer) == Keys(Received(answer).members)
IsErrorAnswer(answer) ==
    /\ JSONparse(answer.payload).ok
    /\ ReceivedKeys(answer) = {"error"}
ErrorOf(answer) == LastValue(Received(answer).members, "error")

ProfileKeys == {"ownerTitle", "ownerProfile", "recommendedBreeds", "dogProfiles"}

\* the upstream reply of request r, once its body has been read
HasReply(r) == IsSome(response[r]) /\ IsSome(Get(response[r]).body)
ReplyStatus(r) == Get(response[r]).status
ReplyBody(r) == Get(Get(response[r]).body)
HasContent(r) == HasReply(r) /\ ReplyBody(r).syntax = "json" /\ ReplyBody(r).choices # <<>>
ReplyContent(r) == ReplyBody(r).choices[1]

\* the credential is unset or empty
Absent(k) == k = Undefined \/ k = Some("")

\* the step in which the handler of request r runs after its body was read
Handles(r) == pc[r] = "body" /\ pc'[r] \notin {"body", "stalled"}

----------------------------------------------------------------------------
(* Claims about the proxy *)

\* C1: a POST handled while OPENAI_API_KEY is unset or empty fails (one answer,
\* status 500) and no outbound call is made for it, then or later.
C1_NoCallWithoutCredential ==
    [][\A r \in Req :
         /\ (Handles(r) /\ Absent(env))
               => /\ pc'[r] = "done"
                  /\ outbound'[r] = <<>>
                  /\ Len(res'[r].sent) = 1
                  /\ res'[r].sent[1].status = 500
         /\ pc[r] = "done" => outbound'[r] = outbound[r]
      ]_vars

C1_Witness ==
    \E r \in Req :
        /\ method[r] = "POST" /\ pc[r] = "done"
        /\ apiKey[r] = Some(Some(""))
        /\ outbound[r] = <<>>
        /\ Len(Sent(r)) = 1 /\ Answer(r).status = 500

\* C2: a POST is answered at most once, exactly once when its handler has
\* finished, and the answer is either 200 with the profile parsed from the
\* upstream reply, or 500 with an object {error}; no other status occurs.
C2_AnsweredOnce200Or500 ==
    \A r \in Req : method[r] = "POST" =>
        /\ Len(Sent(r)) <= 1
        /\ (pc[r] = "done") <=> (Len(Sent(r)) = 1)
        /\ \A i \in DOMAIN Sent(r) :
              \/ /\ Sent(r)[i].status = 200
                 /\ ~IsErrorAnswer(Sent(r)[i])
                 /\ HasContent(r) /\ ResponseOk(ReplyStatus(r))
                 /\ JSONparse(ReplyContent(r)).ok
              \/ /\ Sent(r)[i].status = 500
                 /\ IsErrorAnswer(Sent(r)[i])

C2_Witness ==
    \E r, q \in Req :
        /\ method[r] = "POST" /\ pc[r] = "done" /\ Answer(r).status = 200
        /\ method[q] = "POST" /\ pc[q] = "done" /\ Answer(q).status = 500

\* C3: when the upstream answered with a non-2xx status s and a body b, the
\* caller gets status 500 and {error: m} where m contains s and b.
C3_UpstreamStatusSurfaced ==
    \A r \in Req :
        (pc[r] = "done" /\ HasReply(r) /\ ~ResponseOk(ReplyStatus(r))) =>
            /\ Len(Sent(r)) = 1
            /\ Answer(r).status = 500
            /\ IsErrorAnswer(Answer(r))
            /\ ToString(ReplyStatus(r)) \in Range(ErrorOf(Answer(r)))
            /\ ReplyBody(r).raw \in Range(ErrorOf(Answer(r)))

C3_Witness ==
    \E r \in Req :
        /\ pc[r] = "done" /\ HasReply(r) /\ ReplyStatus(r) = 500
        /\ ReplyBody(r) = ServerErrorBody
        /\ Answer(r).status = 500
        /\ "500" \in Range(ErrorOf(Answer(r)))

\* C4: on a successful upstream call, the value the caller parses from the
\* answer equals the value parsed from choices[0].message.content.
C4_ProfileUnmodified ==
    \A r \in Req :
        (Len(Sent(r)) = 1 /\ Answer(r).status = 200) =>
            /\ HasContent(r)
            /\ JSONparse(Answer(r).payload) = JSONparse(ReplyContent(r))

C4_Witness ==
    \E r \in Req :
        /\ Len(Sent(r)) = 1 /\ Answer(r).status = 200
        /\ ReplyContent(r) = RepeatedKeyContent
        /\ Answer(r).payload # ReplyContent(r)

\* C5 as claimed: with the standard preferences and empty lists, every 2xx
\* reply with parseable content yields the four profile keys exactly.
C5_Original_AlwaysFourKeys ==
    \A r \in Req :
        (/\ reqText[r] = StdText /\ pc[r] = "done"
         /\ HasContent(r) /\ ResponseOk(ReplyStatus(r))
         /\ JSONparse(ReplyContent(r)).ok) =>
            /\ Len(Sent(r)) = 1
            /\ ReceivedKeys(Answer(r)) = ProfileKeys

\* C5 (amended): with the standard preferences and empty lists, a 2xx reply
\* whose content is an object with exactly the four profile keys yields an
\* answer with exactly those keys.
C5_FourKeysWhenUpstreamHasThem ==
    \A r \in Req :
        (/\ reqText[r] = StdText /\ pc[r] = "done"
         /\ HasContent(r) /\ ResponseOk(ReplyStatus(r))
         /\ JSONparse(ReplyContent(r)).ok
         /\ Keys(Get(JSONparse(ReplyContent(r)).value).members) = ProfileKeys) =>
            /\ Len(Sent(r)) = 1
            /\ Answer(r).status = 200
            /\ ReceivedKeys(Answer(r)) = ProfileKeys

C5_Witness ==
    \E r \in Req :
        /\ reqText[r] = StdText /\ pc[r] = "done"
        /\ HasContent(r) /\ ReplyContent(r) = FullContent
        /\ Answer(r).status = 200
        /\ ReceivedKeys(Answer(r)) = ProfileKeys

\* C6 as claimed: whenever the credential is absent when a request is handled,
\* the error sent is the missing-credential message, for every request body.
C6_Original_AnyBody ==
    [][\A r \in Req :
         (Handles(r) /\ Absent(env)) =>
             /\ Len(res'[r].sent) = 1
             /\ res'[r].sent[1] = [status |-> 500, payload |-> ErrorPayload(MissingKeyMessage)]
      ]_vars

\* C6 (amended): the credential is read when the request is handled, and
\* whenever it is absent at that time and the request body is valid JSON, the
\* answer is 500 with the missing-credential message.
C6_MissingCredentialMessage ==
    [][\A r \in Req :
         (Handles(r) /\ Absent(env) /\ ParseBodyText(reqText[r]).ok) =>
             /\ pc'[r] = "done"
             /\ apiKey'[r] = Some(env)
             /\ Len(res'[r].sent) = 1
             /\ res'[r].sent[1] = [status |-> 500, payload |-> ErrorPayload(MissingKeyMessage)]
      ]_vars

C6_Witness ==
    \E r \in Req :
        /\ pc[r] = "done" /\ reqText[r] = StdText
        /\ apiKey[r] = Some(Undefined)
        /\ Len(Sent(r)) = 1
        /\ ErrorOf(Answer(r)) = MissingKeyMessage

\* C7: when the upstream reply is 2xx and its message content is not valid
\* JSON, the caller gets exactly one answer, 500 with {error}, and no 200.
C7_MalformedContentIs500 ==
    \A r \in Req :
        (/\ pc[r] = "done" /\ HasContent(r) /\ ResponseOk(ReplyStatus(r))
         /\ ReplyContent(r).syntax # "json") =>
            /\ Len(Sent(r)) = 1
            /\ Answer(r).status = 500
            /\ IsErrorAnswer(Answer(r))
            /\ ErrorOf(Answer(r)) = SyntaxErrorMessage

C7_Witness ==
    \E r \in Req :
        /\ pc[r] = "done" /\ HasContent(r) /\ ReplyStatus(r) = 200
        /\ ReplyContent(r) = TruncatedContent
        /\ Answer(r).status = 500

\* C8: a request causes at most one outbound call, whatever its outcome.
C8_AtMostOneOutboundCall ==
    \A r \in Req : Len(outbound[r]) <= 1

\* a request whose one call failed on the network and was answered
C8_Witness ==
    \E r \in Req :
        /\ pc[r] = "done" /\ Len(outbound[r]) = 1
        /\ response[r] = None
        /\ ErrorOf(Answer(r)) = FetchFailedMessage

\* The response of a request handled alone, from its method, the body its
\* client sent, the credential its handler read and the upstream reply it got.
AloneResponse(m, text, key, reply) ==
    LET parsed == ParseBodyText(text)
        prompt == Prompt(Get(parsed.value))
        generated == ProfileOf(Get(Get(reply).body))
    IN IF m # "POST" THEN MethodNotAllowed(NewResponse)
       ELSE IF ~parsed.ok THEN Catch(NewResponse, parsed.err)
       ELSE IF key = None \/ Absent(Get(key))
            THEN Catch(NewResponse, Error(MissingKeyMessage))
       ELSE IF ~prompt.ok THEN Catch(NewResponse, prompt.err)
       ELSE IF reply = None \/ Get(reply).body = None
            THEN Catch(NewResponse, Error(FetchFailedMessage))
       ELSE IF ~ResponseOk(Get(reply).status)
            THEN Catch(NewResponse,
                       Error(UpstreamErrorMessage(Get(reply).status, Get(Get(reply).body).raw)))
       ELSE IF generated.ok THEN SendResult(NewResponse, Get(generated.value))
       ELSE Catch(NewResponse, generated.err)

\* C9: in every interleaving of the requests, the response of a finished
\* request is the one it would get alone: a function of its own body, the
\* credential it read and its own upstream reply; until then it has none.
C9_ResponseIsOwn ==
    \A r \in Req :
        /\ pc[r] = "done" =>
              res[r] = AloneResponse(method[r], reqText[r], apiKey[r], response[r])
        /\ pc[r] # "done" => res[r] = NewResponse

\* one request answered 200 while another, with another body, is in flight
C9_Witness ==
    \E r, q \in Req :
        /\ pc[r] = "done" /\ reqText[r] = DogsText /\ Answer(r).status = 200
        /\ pc[q] = "fetch" /\ reqText[q] = StdText
        /\ Len(outbound[q]) = 1

----------------------------------------------------------------------------
(* Claims about the results page *)

\* the profile request of instance i failed: network error, non-OK response,
\* or a body that is not JSON
RequestFailed(i) ==
    \/ genRes[i] = None
    \/ ~Get(genRes[i]).ok
    \/ ~JSONparse(Get(genRes[i]).body).ok

\* C10: when the profile request of a page on screen fails (network error,
\* non-OK response, unparseable body), the page ends in the error state:
\* loading is false, error holds a message, which is rendered by ErrorState
\* with its Start Over button, profile is still null, and the effect issued
\* one request only.
C10_FailureEndsInErrorState ==
    \A i \in Page :
        /\ genFetches[i] <= 1
        /\ (genPc[i] = "done" /\ ~genCancelled[i] /\ RequestFailed(i)) =>
              /\ loading[i] = FALSE
              /\ IsSome(error[i])
              /\ View(i) = "ErrorState"
              /\ profile[i] = None
              /\ genFetches[i] = 1

C10_Witness ==
    \E i \in Page :
        /\ mounted[i] /\ genPc[i] = "done"
        /\ IsSome(genRes[i]) /\ ~Get(genRes[i]).ok
        /\ error[i] = Some(MissingKeyMessage)
        /\ View(i) = "ErrorState"

----------------------------------------------------------------------------
(* The results page and its supplementary fetches *)

\* A step in which a supplementary fetch of instance i fails: loadRecs ends in
\* its catch block, generateImages ends in its catch block or its !res.ok
\* branch, or a breed photo lookup comes back empty.
SupplementaryFailure(i) ==
    \/ recPc[i] # "caught" /\ recPc'[i] = "caught"
    \/ aiPc[i] \notin {"caught", "failed"} /\ aiPc'[i] \in {"caught", "failed"}
    \/ \E d \in Dogs : <<d, "">> \in recImgs'[i] \ recImgs[i]

C12_NoSetterAfterCleanup ==
    [][\A i \in Page :
          /\ genCancelled[i] =>
                /\ profile'[i] = profile[i]
                /\ loading'[i] = loading[i]
                /\ error'[i] = error[i]
                /\ dogImages'[i] = dogImages[i]
          /\ recCancelled[i] =>
                /\ backendRecs'[i] = backendRecs[i]
                /\ backendRecsMessage'[i] = backendRecsMessage[i]
                /\ backendRecImages'[i] = backendRecImages[i]
          /\ aiCancelled[i] =>
                /\ aiImages'[i] = aiImages[i]
                /\ aiImagesLoading'[i] = aiImagesLoading[i]]_vars

----------------------------------------------------------------------------
(* The swipe deck *)

\* The cards whose image fetch has resolved, with the result.
Fetched == {pair \in imgs : pair[1] \in NeedsFetch(cards)}

\* C13 as stated: while SwipeCards is on screen, the image of a card is
\* available (in `images`) as soon as that card's own fetch has resolved,
\* whether or not the fetches of the other cards have.
C13_Original_UsedAsSoonAsResolved ==
    ~loadCancelled => \A pair \in Fetched : pair \in images

\* C13 amended: the image fetches of the deck run one per card and settle in
\* any order, but no image is available while a fetch of the deck is
\* pending; when the last one has resolved and SwipeCards is still on
\* screen, the images collected for the deck become available together.
C13_ImagesPublishedTogether ==
    /\ loadPc \in {"images", "reimages"} => imgPending # {} /\ images = {}
    /\ (loadPc = "done" /\ ~loadCancelled) =>
          /\ images = imgs
          /\ {pair[1] : pair \in images} \subseteq {cards[k].id : k \in DOMAIN cards}
          /\ \A k \in DOMAIN cards :
                cards[k].image_url # "" => <<cards[k].id, cards[k].image_url>> \in images

\* The second card's fetch has resolved before the first card's, and its
\* image is not available yet.
C13_Witness ==
    /\ swMounted
    /\ loadPc = "images"
    /\ imgPending = {cards[1].id}
    /\ \E pair \in Fetched : pair[1] = cards[2].id /\ pair[2] # "" /\ pair \notin images

\* How often dog id occurs in a list of dog ids.
Count(list, id) == Cardinality({k \in DOMAIN list : list[k] = id})

\* C14: whatever the sequence of clicks and drag releases, a card produces at
\* most one recordSwipe request and at most one entry in liked and disliked
\* together.
C14_OneSwipePerCard ==
    \A id \in CardIds :
        /\ Count(liked, id) + Count(disliked, id) <= 1
        /\ Cardinality({k \in DOMAIN swipeRequests : swipeRequests[k].dog_id = id}) <= 1

----------------------------------------------------------------------------
(* getOrCreateUser *)

Returned(c) == callPc[c] = "returned"

\* the users of the table that carry the username
Named(table, username) == {k \in DOMAIN table : table[k].username = username}

\* the calls that have sent a create request that did not fail
Creators == {c \in Call : callPc[c] # "threw" /\ \E k \in DOMAIN createRequests :
                                                    createRequests[k].call = c}

\* C15 as stated: calls made one after another issue at most one create
\* request in total, and all of them return the same user.
C15_Original_OneCreateInTotal ==
    /\ Len(createRequests) <= 1
    /\ \A c1, c2 \in Call : (Returned(c1) /\ Returned(c2)) => callResult[c1] = callResult[c2]

\* C15 amended: for calls made one after another, every call that returns
\* returns the same user, at most one user with the username exists, and
\* once a call has returned no later call sends a create request; a call
\* whose create request fails throws, and the next call sends another.
C15_IdempotentOnceReturned ==
    [][/\ (\E c \in Call : Returned(c)) => createRequests' = createRequests
       /\ \A c1, c2 \in Call :
             (callPc'[c1] = "returned" /\ callPc'[c2] = "returned") =>
                 callResult'[c1] = callResult'[c2]
       /\ Cardinality(Named(users', DemoUser)) <= 1]_vars

\* The first call created the user, and a later call found it.
C15_Witness ==
    \E c1, c2 \in Call :
        /\ c1 # c2
        /\ Returned(c1) /\ Returned(c2)
        /\ Len(createRequests) = 1 /\ createRequests[1].call = c1
        /\ callResult[c2] = callResult[c1]
        /\ IsSome(Find(callUsers[c2], DemoUser))

\* C19: two overlapping calls do not both send a create request, and at most
\* one user with the username is ever created.
C19_OneCreateUnderOverlap ==
    /\ Cardinality(Creators) <= 1
    /\ Cardinality(Named(users, DemoUser)) <= 1

----------------------------------------------------------------------------
(* The recommendation engine *)

\* the values a candidate's attribute may take
ValuesOf(attribute) == {dog[attribute] : dog \in Candidates}

\* C16: whatever the swipe history, the aggregated preference exists as soon
\* as a dog is liked, and its age range and its weight range contain the
\* value of every liked dog: min <= value <= max.
C16_RangesContainLiked ==
    LET dogs == Liked(swipeLog)
    IN dogs # <<>> =>
          /\ IsSome(preference)
          /\ \A k \in DOMAIN dogs :
                /\ Get(preference).age_years.min <= dogs[k].age_years
                /\ dogs[k].age_years <= Get(preference).age_years.max
                /\ Get(preference).weight_lbs.min <= dogs[k].weight_lbs
                /\ dogs[k].weight_lbs <= Get(preference).weight_lbs.max

\* Two liked dogs that differ in age and in weight, the second liked last,
\* and a left swipe in the log.
C16_Witness ==
    LET dogs == Liked(swipeLog)
    IN /\ Len(dogs) = 2
       /\ Len(swipeLog) = 3
       /\ swipeLog[3].direction = "right"
       /\ IsSome(preference)
       /\ Get(preference).age_years.min < Get(preference).age_years.max
       /\ Get(preference).weight_lbs.min < Get(preference).weight_lbs.max

\* C17: for every preference and every candidate the compatibility score is
\* an integer from 0 to 100.
C17_ScoreInRange ==
    IsSome(scores) => \A dog \in Candidates : Get(scores).score[dog] \in 0..100

\* The weights add up to more than 100, a candidate matches in everything and
\* scores 100, another matches in nothing and scores 0.
C17_Witness ==
    /\ IsSome(scores)
    /\ \E dog \in Candidates :
          /\ Total(Get(scores).preference, dog, weights) > 100
          /\ Get(scores).score[dog] = 100
    /\ \E dog \in Candidates : Get(scores).score[dog] = 0

\* C18: for a fixed preference, a candidate that is changed in one attribute
\* from not matching to matching, all else equal, scores no lower.
C18_ScoreMonotone ==
    IsSome(scores) =>
        \A dog \in Candidates, attribute \in Attributes :
            \A v \in ValuesOf(attribute) :
                LET other == [dog EXCEPT ![attribute] = v]
                    pref == Get(scores).preference
                IN (~Matches(pref, dog, attribute) /\ Matches(pref, other, attribute)) =>
                       Get(scores).score[other] >= Get(scores).score[dog]

\* A candidate out of the age range scores strictly lower than the same
\* candidate within it.
C18_Witness ==
    /\ IsSome(scores)
    /\ \E dog \in Candidates, v \in ValuesOf("age_years") :
          LET other == [dog EXCEPT !.age_years = v]
              pref == Get(scores).preference
          IN /\ ~Matches(pref, dog, "age_years")
             /\ Matches(pref, other, "age_years")
             /\ Get(scores).score[other] > Get(scores).score[dog]

----------------------------------------------------------------------------
(* The proxy and the bodies it cannot use *)

\* The bodies that are no JSON, or lack preferences, results, one of
\* preferences.energy/weight/age or one of results.liked/disliked.
Unusable == {TruncatedText, EmptyObjText, NoResultsText, NoAgeText, NoLikedText}

\* C20: a POST whose body is no valid JSON, or lacks preferences, results or
\* one of their fields, never causes an outbound call, and is answered once,
\* with status 500 and {error}.
C20_UnusableBodyIs500 ==
    \A r \in Req :
        (method[r] = "POST" /\ reqText[r] \in Unusable) =>
            /\ outbound[r] = <<>>
            /\ pc[r] \notin {"fetch", "text", "json"}
            /\ pc[r] = "done" =>
                  /\ Len(Sent(r)) = 1
                  /\ Answer(r).status = 500
                  /\ IsErrorAnswer(Answer(r))

\* With the credential set, a body without results.liked and a body that is
\* no JSON were both answered 500, the first with the TypeError's message.
C20_Witness ==
    \E r1, r2 \in Req :
        /\ pc[r1] = "done" /\ method[r1] = "POST" /\ reqText[r1] = NoLikedText
        /\ apiKey[r1] = Some(Some("sk-live"))
        /\ Answer(r1).status = 500 /\ ErrorOf(Answer(r1)) = TypeErrorMessage
        /\ pc[r2] = "done" /\ method[r2] = "POST" /\ reqText[r2] = TruncatedText
        /\ Answer(r2).status = 500 /\ ErrorOf(Answer(r2)) = SyntaxErrorMessage

----------------------------------------------------------------------------
(* The proxy and the other methods *)

\* C30: a request with a method other than POST is answered once, with status
\* 405 and {error: "Method not allowed"}; none of its chunks is consumed,
\* parseBody collects nothing for it, the credential is not read and no
\* outbound call is made.
C30_OtherMethodIs405 ==
    \A r \in Req :
        (method[r] # "none" /\ method[r] # "POST") =>
            /\ pc[r] = "done"
            /\ Len(Sent(r)) = 1
            /\ Answer(r).status = 405
            /\ IsErrorAnswer(Answer(r))
            /\ ErrorOf(Answer(r)) = <<"Method not allowed">>
            /\ wire[r] = reqText[r]
            /\ body[r] = <<>>
            /\ apiKey[r] = None
            /\ outbound[r] = <<>>

\* A GET that carried a well-formed body was answered while the credential
\* was set, and a POST of the same server went on to its outbound call.
C30_Witness ==
    \E r1, r2 \in Req :
        /\ method[r1] = "GET" /\ reqText[r1] = StdText /\ pc[r1] = "done"
        /\ Truthy(env)
        /\ method[r2] = "POST" /\ outbound[r2] # <<>>

----------------------------------------------------------------------------
(* The proxy and the request stream *)

\* C24: every POST is eventually answered, also when its request stream
\* errors or is aborted before 'end'.
C24_EveryPostAnswered ==
    \A r \in Req : (method[r] = "POST") ~> (Sent(r) # <<>>)

----------------------------------------------------------------------------
(* The results page: profile and error *)

\* C27: whenever loading is false, exactly one of profile and error is set.
C27_ExactlyOneOfProfileAndError ==
    \A i \in Page :
        ~loading[i] => (IsSome(profile[i]) /\ error[i] = None)
                       \/ (profile[i] = None /\ IsSome(error[i]))


----------------------------------------------------------------------------
(* The swipe results in the prompt *)

\* C21: in the prompt rendered for the lists the swipe component handed over,
\* every field the template reads of a dog is defined (no entry renders as
\* "undefined"), and an empty list is rendered as "None".
C21_EntriesCarryActualValues ==
    IsSome(rendered) =>
        LET prompt == Get(Get(rendered).value)
        IN /\ "undefined" \notin Range(prompt)
           /\ swipeResults.liked = <<>> => prompt[11] = "None"
           /\ swipeResults.disliked = <<>> => prompt[Len(prompt)] = "None"


----------------------------------------------------------------------------
(* App: the steps *)

\* C29: the results step is entered only from the swipe step, by onComplete;
\* while step = results the stored swipeResults are the lists passed to that
\* onComplete call; a step change leaves energy, weight and age unchanged.
C29_ResultsOnlyThroughOnComplete ==
    /\ [](step = "results" =>
            /\ IsSome(completed)
            /\ swipeResults.liked = Get(completed).liked
            /\ swipeResults.disliked = Get(completed).disliked)
    /\ [][/\ (step' = "results" /\ step # "results") =>
                (step = "swipe" /\ IsSome(completed')
                 /\ swipeResults' = [liked |-> Get(completed').liked,
                                     disliked |-> Get(completed').disliked])
          /\ step' # step =>
                (appEnergy' = appEnergy /\ appWeight' = appWeight /\ appAge' = appAge)]_vars

\* With the sliders moved, a session that liked Rex and disliked Bella was
\* completed, and the results step holds these two lists.
C29_Witness ==
    /\ step = "results"
    /\ appEnergy = <<0, 100>> /\ appAge = <<4, 4>>
    /\ Len(swipeResults.liked) = 1 /\ swipeResults.liked[1].name = "Rex"
    /\ Len(swipeResults.disliked) = 1 /\ swipeResults.disliked[1].name = "Bella"


----------------------------------------------------------------------------
(* RescueUpload: the uploading flag *)

\* C28: uploading is true exactly while an upload request is in flight.  It
\* becomes true only when handleUpload starts a request with a file selected,
\* every request starts while it is false and makes it true, it becomes false
\* only when the request ends, in a result or in an error, and while no file
\* is selected no request starts and the flag does not change.
C28_UploadingWhileInFlight ==
    /\ [](uploading <=> upPc = "request")
    /\ [][/\ (~uploading /\ uploading') =>
                (file # None /\ Len(uploads') = Len(uploads) + 1)
          /\ Len(uploads') > Len(uploads) => (~uploading /\ uploading')
          /\ (uploading /\ ~uploading') =>
                (upPc = "request" /\ upPc' = "idle"
                 /\ (IsSome(upResult') \/ IsSome(upError')))
          /\ file = None => (uploading' = uploading /\ uploads' = uploads)]_vars

\* Two uploads were started and have ended, the last one in an error, and
\* the form is idle again with its file still selected.
C28_Witness ==
    /\ Len(uploads) = 2
    /\ ~uploading /\ upPc = "idle"
    /\ IsSome(upError) /\ file # None


----------------------------------------------------------------------------
(* SwipeCards: the deck and the end of the session *)

\* the done view, with its "See my AI profile" button, is rendered
DoneShown ==
    /\ swMounted /\ ~swLoading /\ done
    /\ IF revision = "part_002" THEN Len(cards) # 0 ELSE fetchError = None

\* C25: when the session is done, every card of the deck is in liked or in
\* disliked.
C25_NoCardSkipped ==
    DoneShown =>
        \A k \in DOMAIN cards : cards[k].id \in Range(liked) \cup Range(disliked)

\* C26: no render dereferences a card past the end of the deck, the card view
\* is only rendered with currentIndex < cards.length, and liked and disliked
\* hold nothing but cards of the deck.
C26_NeverPastTheEnd ==
    /\ ~renderError
    /\ CardShown => currentIndex < Len(cards)
    /\ Range(liked) \cup Range(disliked) \subseteq {cards[k].id : k \in DOMAIN cards}



----------------------------------------------------------------------------
(* The breed-image helpers and the recommended images *)

C23_ExactlyThreeImages ==
    (giPc = "done" /\ IsSome(giResult) /\ Get(giResult).ok) =>
        LET returned == Get(Get(giResult).value).images IN
        /\ Len(returned) = 3
        /\ Len(returned) = Len(giRecs)
        /\ \A i \in DOMAIN returned :
              /\ returned[i].breed = giRecs[i].breed
              /\ returned[i].description = giRecs[i].description

============================================================================
